---- MODULE Spec2Model ----
(***************************************************************************)
(* Model of src/src/GameEngine.tsx: the React component GameEngine, its    *)
(* phase state machine, and the frame callback `render` that advances the  *)
(* simulation while the phase is PLAYING.                                  *)
(*                                                                         *)
(* Units.  Lengths are in 1/100 px for a 400x600 canvas (scale = 1) on a   *)
(* desktop device (mobileSpeedMult = 1), so every product of the source's  *)
(* constants (0.15, 2.5 * 1.4 * 1.4 * 0.8, 30 * 1.5 * 1.25 ...) is an      *)
(* integer.  Times are in ms, `now` is Date.now().  Multipliers are in     *)
(* percent (1.4 = 140).                                                    *)
(*                                                                         *)
(* React.  gameState and score are React state: a setter called inside a   *)
(* callback is queued and committed when the callback returns (batched,    *)
(* the last setGameState wins).  The render effect captures gameState and  *)
(* score and the values computed at effect setup (scaledBirdSize,          *)
(* scaledPipeSpeed); it is torn down and set up again whenever one of its  *)
(* dependencies changes, and its setup calls render() once at once.  The   *)
(* variable `dirty` says that a commit has changed a dependency and the    *)
(* effect has not yet been set up again; nothing else runs in between.     *)
(***************************************************************************)
EXTENDS Integers, Sequences, FiniteSets, TLC

\* ---------------------------------------------------------------- bounds
MaxTicks == 4          \* frames (rAF callbacks) explored per behaviour
MaxInputs == 2         \* discrete input events during a session per behaviour
MaxMenuKeys == 3       \* key presses explored on the TITLE / START screens
MaxSand == 1            \* sand particles alive at once
MaxRain == 1            \* rain drops alive at once
MaxSessions == 2       \* sessions started by startGame per behaviour
MaxStalls == 1         \* stalled frames per behaviour
RandomSteps == 1024    \* resolution of a Math.random() draw
MaxStoredLen == 3      \* entries found in localStorage at the first submission
MaxIdleTicks == 1      \* frames explored on the TITLE and START screens
MaxFrames == 520       \* PLAYING ticks of a session explored for the obstacle array alone

\* ------------------------------------------------------- program constants
CanvasW == 40000                 \* canvasSize.width  = 400
CanvasH == 60000                 \* canvasSize.height = 600
GRAVITY == 15                    \* 0.15
LIFT == 0 - 350                  \* -3.5
PIPE_SPEED == 250                \* 2.5
PIPE_SPAWN_RATE == 150
PIPE_GAP == 17000                \* 170
BIRD_BASE_SIZE == 3000           \* 30 * scale
BIRD_START_Y == 30000            \* 300 * scale
PIPE_WIDTH == 5000               \* 50 * scale
GROUND_H == 2000                 \* 20 * scale
MIN_PIPE == 5000                 \* 50 * scale
PIPE_REMOVE_X == 0 - 6000        \* -60 * scale
PROJ_SPEED == 800                \* 8 * scale
PROJ_LEN == 1500                 \* 15 * scale
PROJ_MARGIN == 2000              \* 20 * scale
POWER_DURATION == 5000
POSTER_DURATION == 6500
POSTER_SIZE_MULT == 125
POSTER_SPAWN_INTERVAL == 3600
BLUE_PILL_DURATION == 5000
BLUE_PILL_SIZE_MULT == 150
BLUE_PILL_SPEED_MULT == 140
PILL_SPAWN_GATE == 500
BLUE_PILL_SPAWN_GATE == 800
TABLET_RADIUS == 1800            \* 18 * scale
TABLET_MIN_W == 400              \* 4 * scale
POSTER_SIZE == 6000              \* 60 * scale
PICKUP_GONE_X == 0 - 5000        \* -50 * scale
ACID_RAIN_DELAY == 15000
SANDSTORM_TRIGGER_SCORE == 60
SANDSTORM_DURATION_BASE == 12000
SANDSTORM_DURATION_LVL2 == 17000
LEVEL_2_SCORE == 150
TAUNT_DURATION == 3000
TAUNT_EVERY == 10
NUM_TAUNTS == 17
BOSS_GLITCH_DURATION == 3000
BOSS_MESSAGE_CHAR_SPEED == 40
BOSS_MESSAGE_PAUSE == 1200
BOSS_FADE == 1500
MAX_HIGH_SCORES == 10
EXP_BASE == 15                   \* Math.round(15 * particleMultiplier)
EXP_CAP == 150                   \* Math.round(150 * particleMultiplier)
GOD_EXP == 20                    \* Math.round(20 * particleMultiplier)
EXP_LIFE == 100                  \* life: 1
EXP_DECAY == 3                   \* life -= 0.03
BURST_COUNT == 18                \* Math.round(18 * particleMultiplier)
POSTER_BURST_COUNT == 22
AUTO_FIRE_EVERY == 5
AUTO_FIRE_CAP == 50
SAND_GONE_X == 5000              \* sand.x > canvas.width + 50
FRAME_MS == 16                   \* one display refresh
HITCH_MS == 5100       \* a frame that comes a few seconds late
STALL_MS == 20000                \* a stalled frame (tab hidden, debugger)

\* null, for the cells that hold an object or null
NULL == [null |-> TRUE]
BOSS_MESSAGES == <<48, 18, 19, 19>>      \* lengths of the four boss messages

scaledBirdX == IF (CanvasW * 20) \div 100 < 30000 THEN (CanvasW * 20) \div 100 ELSE 30000
GROUND_Y_GAME == CanvasH - GROUND_H
MAX_PIPE == CanvasH - PIPE_GAP - MIN_PIPE - GROUND_H

\* ----------------------------------------------------------------- helpers
Abs(n) == IF n < 0 THEN 0 - n ELSE n
Min2(a, b) == IF a < b THEN a ELSE b
Pct(n, p) == (n * p) \div 100
\* Math.round(n * particleMultiplier), the multiplier in percent (.5 rounds up)
Round(n, pm) == (n * pm + 50) \div 100

\* arr[i] = arr[arr.length - 1]; arr.pop()   (i is the 1-based index)
SwapRemove(arr, i) ==
    IF i = Len(arr) THEN SubSeq(arr, 1, Len(arr) - 1)
    ELSE [k \in 1..(Len(arr) - 1) |-> IF k = i THEN arr[Len(arr)] ELSE arr[k]]

Repeat(v, n) == [k \in 1..n |-> v]

Bind(S, F(_)) == UNION { F(x) : x \in S }

\* ------------------------------------------------------------------- state
VARIABLES
    gameState,      \* useState: 'TITLE' | 'START' | 'PLAYING' | 'PAUSED' | 'GAME_OVER'
    score,          \* useState
    highScores,     \* useState: the list shown on the GAME_OVER panel
    menuScreen,     \* useState: 'MAIN' | 'OPTIONS'
    activeTab,      \* useState: 'GRAPHICS' | 'AUDIO'
    stored,         \* localStorage[HIGH_SCORE_KEY]
    ref,            \* every useRef cell, by name (ref.birdY is birdY.current)
    eff,            \* values computed when the render effect was last set up
    dirty,          \* a commit changed a dependency of the render effect
    now,            \* Date.now()
    obs,            \* what the last call of render() did (observation only)
    hist,           \* history of the current session (observation only)
    ticks,          \* frames so far          (bounded by MaxTicks)
    inputs,         \* session inputs so far  (bounded by MaxInputs)
    menuKeys,       \* menu key presses so far (bounded by MaxMenuKeys)
    graphicsQuality,\* useState: 'LOW' | 'MEDIUM' | 'HIGH' | 'ULTRA' | 'CUSTOM'
    keyTab,         \* activeTab as the keydown effect captured it
    raf             \* the host's list of frame callbacks, as animationFrameId.current sees it

vars == <<gameState, score, highScores, menuScreen, activeTab, stored, ref, eff,
          dirty, now, obs, hist, ticks, inputs, menuKeys, graphicsQuality, keyTab, raf>>

Phases == {"TITLE", "START", "PLAYING", "PAUSED", "GAME_OVER"}
PickupKinds == {"green", "blue", "poster"}

\* The cells resetGame() assigns, with the values it assigns.
ResetCells ==
    [birdY |-> BIRD_START_Y, birdVelocity |-> 0,
     currentTaunt |-> NULL, tauntEndTime |-> 0, lastTauntScore |-> 0,
     pipes |-> <<>>, frameCount |-> 0,
     powerUpActive |-> FALSE, powerUpEndTime |-> 0, pill |-> NULL, pillSpawnTimer |-> 0,
     projectiles |-> <<>>,
     bluePillActive |-> FALSE, bluePillEndTime |-> 0, bluePill |-> NULL,
     bluePillSpawnTimer |-> 0,
     rainDrops |-> <<>>, splashParticles |-> <<>>, gameStartTime |-> 0,
     scoreSaved |-> FALSE,
     sandstormActiveRef |-> FALSE, sandstormEndTime |-> 0, lastSandstormScore |-> 0,
     sandParticles |-> <<>>,
     posterActive |-> FALSE, posterEndTime |-> 0, poster |-> NULL,
     posterSpawnTimer |-> 0, posterAutoFireTimer |-> 0,
     bossIntroActive |-> FALSE, bossIntroTriggered |-> FALSE, bossIntroStartTime |-> 0,
     bossMessageIndex |-> 0, bossCharIndex |-> 0,
     pillPickupParticles |-> <<>>]

\* The cells resetGame() does not assign, with their useRef() initial values.
OtherCells ==
    [explosionParticles |-> <<>>, bossLastCharTime |-> 0, songLevel |-> 1,
     greenPillsEnabled |-> TRUE, bluePillsEnabled |-> TRUE, acidRainEnabled |-> TRUE,
     sandstormEnabled |-> TRUE, godMode |-> FALSE, showBirdGlow |-> FALSE,
     particleMultiplier |-> 100,
     selectedMenuItem |-> 0, mouseMenuItem |-> 0 - 1]

Merge(a, b) ==
    [k \in (DOMAIN a) \cup (DOMAIN b) |-> IF k \in DOMAIN b THEN b[k] ELSE a[k]]

\* All cells right after the component is constructed.
FreshRefs == Merge(OtherCells, ResetCells)

\* resetGame(): every assignment to a ref it makes.
resetGame(r) == Merge(r, ResetCells)

\* The values the render effect computes when it is set up.
EffectSetup(r) ==
    LET bluePillMult == IF r.bluePillActive THEN BLUE_PILL_SPEED_MULT ELSE 100
        sandstormMult == IF r.sandstormActiveRef THEN BLUE_PILL_SPEED_MULT ELSE 100
        posterSizeMult == IF r.posterActive THEN POSTER_SIZE_MULT ELSE 100
        blueSizeMult == IF r.bluePillActive THEN BLUE_PILL_SIZE_MULT ELSE 100
    IN [scaledPipeSpeed |-> Pct(Pct(PIPE_SPEED, bluePillMult), sandstormMult),
        scaledBirdSize |-> Pct(Pct(BIRD_BASE_SIZE, blueSizeMult), posterSizeMult)]

\* saveHighScore(newScore): push, sort descending, keep the first ten.
RECURSIVE InsertDesc(_, _)
InsertDesc(list, v) ==
    IF list = <<>> THEN <<v>>
    ELSE IF v > Head(list) THEN <<v>> \o list
    ELSE <<Head(list)>> \o InsertDesc(Tail(list), v)

\* scores.sort((a, b) => b - a)
RECURSIVE SortDesc(_)
SortDesc(list) ==
    IF list = <<>> THEN <<>> ELSE InsertDesc(SortDesc(Tail(list)), Head(list))

\* saveHighScore without slice(0, MAX_HIGH_SCORES).
saveHighScoreUncut(list, newScore) == SortDesc(Append(list, newScore))

saveHighScore(list, newScore) ==
    LET sorted == SortDesc(Append(list, newScore))
    IN SubSeq(sorted, 1, Min2(Len(sorted), MAX_HIGH_SCORES))

\* Observation of one render() call, before it has done anything.
ObsNone ==
    [branch |-> "NONE", score |-> 0, birdSize |-> 0, pipeSpeed |-> 0,
     blue0 |-> FALSE, poster0 |-> FALSE, sand0 |-> FALSE,
     stormStarted |-> FALSE, stormDeadline |-> 0, stormSeen |-> {}, stormEnabled |-> FALSE,
     bossStarted |-> FALSE, tauntStarted |-> FALSE, saveCalled |-> FALSE,
     scored |-> {}, order |-> <<>>, error |-> FALSE, faults |-> 0, warning |-> FALSE, volley |-> 0,
     tauntShown |-> FALSE, shots |-> <<>>, rain |-> FALSE, rainEnabled |-> FALSE, drops |-> 0, god |-> FALSE, physY |-> 0, physV |-> 0, endY |-> 0, endV |-> 0, ended |-> {},
     pick |-> [k \in PickupKinds |-> [tested |-> FALSE, overlap |-> FALSE, applied |-> FALSE]]]

\* History of a session that has just started.
HistNone ==
    [session |-> 0, base |-> 0, stalls |-> 0, saves |-> <<>>, stormScores |-> {}, tauntScores |-> {}, bossStarts |-> 0,
     scoredIds |-> <<>>, nextId |-> 1, gone |-> 0, spawned |-> [k \in PickupKinds |-> 0],
     collected |-> [k \in PickupKinds |-> 0]]

\* ------------------------------------------------- render(): PLAYING steps
\* A frame in progress: the cells, the queued setScore(prev => prev + 1) calls
\* (incs), a queued setGameState('GAME_OVER') (over), localStorage and the
\* high-score list, and the observations.
NewFrame(r, h, st, hs) ==
    [ref |-> r, incs |-> 0, over |-> FALSE, obs |-> ObsNone, hist |-> h,
     stored |-> st, highScores |-> hs]

Upd(f, cells) == [f EXCEPT !.ref = Merge(f.ref, cells)]

\* The systems of a frame, in the order in which render() reaches them.
Log(f, system) == [f EXCEPT !.obs.order = Append(@, system)]

PowerUpExpiryBoth(f, t) ==
    IF f.ref.powerUpActive /\ t > f.ref.powerUpEndTime
    THEN Upd(f, [powerUpActive |-> FALSE, bluePillActive |-> FALSE]) ELSE f

\* if (powerUpActive.current && Date.now() > powerUpEndTime.current)
PowerUpExpiry(f, t) ==
    IF f.ref.powerUpActive /\ t > f.ref.powerUpEndTime
    THEN Upd(f, [powerUpActive |-> FALSE]) ELSE f

\* Gravity, then the god-mode clamp and bounce.
Physics(f, e) ==
    LET v1 == f.ref.birdVelocity + GRAVITY
        y1 == f.ref.birdY + v1
        low == y1 + e.scaledBirdSize > GROUND_Y_GAME
        y2 == IF low THEN GROUND_Y_GAME - e.scaledBirdSize ELSE y1
        v2 == IF low THEN 0 - (Abs(v1) \div 2) ELSE v1
        high == y2 < 0
        y3 == IF high THEN 0 ELSE y2
        v3 == IF high THEN Abs(v2) \div 2 ELSE v2
        f1 == [f EXCEPT !.obs.god = f.ref.godMode, !.obs.physY = y1, !.obs.physV = v1]
    IN IF f.ref.godMode THEN Upd(f1, [birdY |-> y3, birdVelocity |-> v3])
       ELSE Upd(f1, [birdY |-> y1, birdVelocity |-> v1])

\* The pickup test taking the pickup's centre line for its left edge.
PickupHitCentre(e, birdY, px, py, hw, hh) ==
    /\ scaledBirdX < px + hw
    /\ scaledBirdX + e.scaledBirdSize > px
    /\ birdY < py + hh
    /\ birdY + e.scaledBirdSize > py - hh

\* The avatar / pickup test of lines 1462, 1538 and 1613: hw and hh are the
\* half width and half height of the pickup around (px, py).
PickupHit(e, birdY, px, py, hw, hh) ==
    /\ scaledBirdX < px + hw
    /\ scaledBirdX + e.scaledBirdSize > px - hw
    /\ birdY < py + hh
    /\ birdY + e.scaledBirdSize > py - hh

\* Math.sin(globalTime * c) * amp: globalTime moves by one per frame, so the
\* value hardly changes over the frames explored; it is taken at its maximum.
Wobble(amp) == {amp}
\* Math.abs(Math.cos(rotation)) * tabletRadius + 4 * scale: the two extremes.
TabletWidths == {TABLET_MIN_W, TABLET_MIN_W + TABLET_RADIUS}
\* 40 + Math.floor(Math.random() * 20): one draw per burst, the two extremes.
BurstLives == {40, 59}
PosterBurstLives == {45, 64}

LastPipe(f) == f.ref.pipes[Len(f.ref.pipes)]
GapCenter(p) == p.topHeight + PIPE_GAP \div 2

Observe(f, kind, tested, overlap, applied) ==
    [f EXCEPT !.obs.pick[kind] =
        [tested |-> tested, overlap |-> overlap, applied |-> applied]]

CountSpawn(f, kind) == [f EXCEPT !.hist.spawned[kind] = @ + 1]
CountCollect(f, kind) == [f EXCEPT !.hist.collected[kind] = @ + 1]

\* The overlap of two boxes given by their edges, as the spec words it.
Overlap(l1, r1, t1, b1, l2, r2, t2, b2) == l1 < r2 /\ r1 > l2 /\ t1 < b2 /\ b1 > t2

Burst(f, n, lives) ==
    IF f.ref.showBirdGlow
    THEN { Upd(f, [pillPickupParticles |-> f.ref.pillPickupParticles
                      \o Repeat(l, Round(n, f.ref.particleMultiplier))]) : l \in lives }
    ELSE {f}

GreenSpawnToggleIgnored(f) ==
    LET timer == f.ref.pillSpawnTimer + 1
        f1 == Upd(f, [pillSpawnTimer |-> timer])
        gate == f.ref.pill = NULL /\ timer > PILL_SPAWN_GATE /\ Len(f.ref.pipes) > 0
        made == Upd(f1, [pill |-> [x |-> CanvasW + 2000,
                                   y |-> GapCenter(LastPipe(f)) - 1000, rotation |-> 0],
                         pillSpawnTimer |-> 0])
    IN IF gate THEN {f1, CountSpawn(made, "green")} ELSE {f1}

\* === PILL === spawn (lines 1418-1424)
GreenSpawn(f) ==
    LET timer == f.ref.pillSpawnTimer + 1
        f1 == Upd(f, [pillSpawnTimer |-> timer])
        gate == f.ref.pill = NULL /\ timer > PILL_SPAWN_GATE
                /\ Len(f.ref.pipes) > 0 /\ f.ref.greenPillsEnabled
        made == Upd(f1, [pill |-> [x |-> CanvasW + 2000,
                                   y |-> GapCenter(LastPipe(f)) - 1000, rotation |-> 0],
                         pillSpawnTimer |-> 0])
    IN IF gate THEN {f1, CountSpawn(made, "green")} ELSE {f1}

\* === PILL === move, collect, leave (lines 1426-1490)
GreenMove(f, e, t) ==
    IF f.ref.pill = NULL THEN {Observe(f, "green", FALSE, FALSE, FALSE)}
    ELSE UNION { UNION {
        LET px == f.ref.pill.x - Pct(e.scaledPipeSpeed, 80)
            py == f.ref.pill.y + w
            moved == [x |-> px, y |-> py, rotation |-> f.ref.pill.rotation + 1]
            hit == PickupHit(e, f.ref.birdY, px, py, tw, TABLET_RADIUS)
            ov == Overlap(scaledBirdX, scaledBirdX + e.scaledBirdSize, f.ref.birdY,
                          f.ref.birdY + e.scaledBirdSize,
                          px - tw, px + tw, py - TABLET_RADIUS, py + TABLET_RADIUS)
            got == Upd(f, [powerUpActive |-> TRUE, powerUpEndTime |-> t + POWER_DURATION,
                           pill |-> NULL])
            kept == Upd(f, [pill |-> IF px < PICKUP_GONE_X THEN NULL ELSE moved])
        IN IF hit
           THEN Burst(CountCollect(Observe(got, "green", TRUE, ov, TRUE), "green"),
                      BURST_COUNT, BurstLives)
           ELSE {Observe(kept, "green", TRUE, ov, FALSE)}
        : tw \in TabletWidths } : w \in Wobble(50) }

\* === BLUE PILL (DEBUFF) === spawn (lines 1493-1499)
BlueSpawn(f) ==
    LET timer == f.ref.bluePillSpawnTimer + 1
        f1 == Upd(f, [bluePillSpawnTimer |-> timer])
        gate == f.ref.bluePill = NULL /\ timer > BLUE_PILL_SPAWN_GATE
                /\ Len(f.ref.pipes) > 0 /\ f.ref.bluePillsEnabled
        made == Upd(f1, [bluePill |-> [x |-> CanvasW + 4000,
                                       y |-> GapCenter(LastPipe(f)) + 2000, rotation |-> 0],
                         bluePillSpawnTimer |-> 0])
    IN IF gate THEN {f1, CountSpawn(made, "blue")} ELSE {f1}

\* === BLUE PILL === move, collect, leave (lines 1501-1566)
BlueMove(f, e, t) ==
    IF f.ref.bluePill = NULL THEN {Observe(f, "blue", FALSE, FALSE, FALSE)}
    ELSE UNION { UNION {
        LET px == f.ref.bluePill.x - Pct(e.scaledPipeSpeed, 80)
            py == f.ref.bluePill.y + w
            moved == [x |-> px, y |-> py, rotation |-> f.ref.bluePill.rotation + 1]
            hit == PickupHit(e, f.ref.birdY, px, py, tw, TABLET_RADIUS)
            ov == Overlap(scaledBirdX, scaledBirdX + e.scaledBirdSize, f.ref.birdY,
                          f.ref.birdY + e.scaledBirdSize,
                          px - tw, px + tw, py - TABLET_RADIUS, py + TABLET_RADIUS)
            got == Upd(f, [bluePillActive |-> TRUE, bluePillEndTime |-> t + BLUE_PILL_DURATION,
                           bluePill |-> NULL])
            kept == Upd(f, [bluePill |-> IF px < PICKUP_GONE_X THEN NULL ELSE moved])
        IN IF hit
           THEN Burst(CountCollect(Observe(got, "blue", TRUE, ov, TRUE), "blue"),
                      BURST_COUNT, BurstLives)
           ELSE {Observe(kept, "blue", TRUE, ov, FALSE)}
        : tw \in TabletWidths } : w \in Wobble(60) }

\* The debuff going off a second after its deadline.
BlueExpiryLate(f, t) ==
    IF f.ref.bluePillActive /\ t > f.ref.bluePillEndTime + 1000
    THEN Upd(f, [bluePillActive |-> FALSE]) ELSE f

\* Check blue pill expiry (lines 1568-1571)
BlueExpiry(f, t) ==
    IF f.ref.bluePillActive /\ t > f.ref.bluePillEndTime
    THEN Upd(f, [bluePillActive |-> FALSE]) ELSE f

\* === POSTER POWER-UP === spawn (lines 1574-1580)
PosterSpawn(f) ==
    LET timer == f.ref.posterSpawnTimer + 1
        f1 == Upd(f, [posterSpawnTimer |-> timer])
        gate == f.ref.poster = NULL /\ timer > POSTER_SPAWN_INTERVAL /\ Len(f.ref.pipes) > 0
        made == Upd(f1, [poster |-> [x |-> CanvasW + 3000, y |-> GapCenter(LastPipe(f)),
                                     rotation |-> 0],
                         posterSpawnTimer |-> 0])
    IN IF gate THEN CountSpawn(made, "poster") ELSE f1

\* === POSTER === move, collect, leave (lines 1582-1643)
PosterMove(f, e, t) ==
    IF f.ref.poster = NULL THEN {Observe(f, "poster", FALSE, FALSE, FALSE)}
    ELSE UNION {
        LET px == f.ref.poster.x - Pct(e.scaledPipeSpeed, 70)
            py == f.ref.poster.y + w
            half == POSTER_SIZE \div 2
            moved == [x |-> px, y |-> py, rotation |-> f.ref.poster.rotation + 1]
            hit == PickupHit(e, f.ref.birdY, px, py, half, half)
            ov == Overlap(scaledBirdX, scaledBirdX + e.scaledBirdSize, f.ref.birdY,
                          f.ref.birdY + e.scaledBirdSize,
                          px - half, px + half, py - half, py + half)
            got == Upd(f, [posterActive |-> TRUE, posterEndTime |-> t + POSTER_DURATION,
                           powerUpActive |-> TRUE, powerUpEndTime |-> t + POSTER_DURATION,
                           poster |-> NULL])
            kept == Upd(f, [poster |-> IF px < PICKUP_GONE_X THEN NULL ELSE moved])
        IN IF hit
           THEN Burst(CountCollect(Observe(got, "poster", TRUE, ov, TRUE), "poster"),
                      POSTER_BURST_COUNT, PosterBurstLives)
           ELSE {Observe(kept, "poster", TRUE, ov, FALSE)}
        : w \in Wobble(80) }

\* Poster expiry (lines 1645-1648)
PosterExpiry(f, t) ==
    IF f.ref.posterActive /\ t > f.ref.posterEndTime
    THEN Upd(f, [posterActive |-> FALSE]) ELSE f

\* Poster auto-fire stream (lines 1650-1663): five projectiles, vy = tan(angle) * 6.
AutoFireVy == <<0 - 153, 0 - 72, 0, 72, 153>>

PosterAutoFireUncapped(f, e) ==
    IF ~f.ref.posterActive THEN f
    ELSE LET timer == f.ref.posterAutoFireTimer + 1
             shots == [k \in 1..5 |-> [x |-> scaledBirdX + e.scaledBirdSize,
                                       y |-> f.ref.birdY + e.scaledBirdSize \div 2,
                                       vy |-> AutoFireVy[k]]]
         IN IF timer % AUTO_FIRE_EVERY = 0
            THEN [Upd(f, [posterAutoFireTimer |-> timer,
                          projectiles |-> f.ref.projectiles \o shots])
                  EXCEPT !.obs.volley = Len(shots)]
            ELSE Upd(f, [posterAutoFireTimer |-> timer])
PosterAutoFire(f, e) ==
    IF ~f.ref.posterActive THEN f
    ELSE LET timer == f.ref.posterAutoFireTimer + 1
             shots == [k \in 1..5 |-> [x |-> scaledBirdX + e.scaledBirdSize,
                                       y |-> f.ref.birdY + e.scaledBirdSize \div 2,
                                       vy |-> AutoFireVy[k]]]
         IN IF timer % AUTO_FIRE_EVERY = 0 /\ Len(f.ref.projectiles) < AUTO_FIRE_CAP
            THEN [Upd(f, [posterAutoFireTimer |-> timer,
                          projectiles |-> f.ref.projectiles \o shots])
                  EXCEPT !.obs.volley = Len(shots)]
            ELSE Upd(f, [posterAutoFireTimer |-> timer])

\* projectiles[i] = projectiles[length - 1]; projectiles.pop() with an index
\* that may already be past the end (the assignment then appends what pop()
\* takes away again).
JsSwapRemove(arr, i) == IF i > Len(arr) THEN arr ELSE SwapRemove(arr, i)

\* The projectile / obstacle test with its top-segment branch only.
ProjectileHitsTop(proj, p) ==
    /\ ~p.destroyed
    /\ proj.x + PROJ_LEN > p.x
    /\ proj.x < p.x + PIPE_WIDTH
    /\ proj.y < p.topHeight

\* The projectile / obstacle test of lines 1701-1755.
ProjectileHits(proj, p) ==
    /\ ~p.destroyed
    /\ proj.x + PROJ_LEN > p.x
    /\ proj.x < p.x + PIPE_WIDTH
    /\ (proj.y < p.topHeight \/ proj.y > p.topHeight + PIPE_GAP)

\* for (let j = pipes.length - 1; j >= 0; j--): the first obstacle hit, or 0.
RECURSIVE HitPipe(_, _, _)
HitPipe(pipes, proj, j) ==
    IF j = 0 THEN 0
    ELSE IF ProjectileHits(proj, pipes[j]) THEN j
    ELSE HitPipe(pipes, proj, j - 1)

\* Math.min(expBase, expCap - explosionParticles.length) particles of life 1.
Explode(exp, pm) ==
    LET n == Min2(Round(EXP_BASE, pm), Round(EXP_CAP, pm) - Len(exp))
    IN IF n > 0 THEN exp \o Repeat(EXP_LIFE, n) ELSE exp

\* === PROJECTILES === (lines 1666-1757), i counts down from the last index.
\* Each projectile leaves in obs.shots what it met and what it left behind.
\* With no projectile left there is no index left to visit.
RECURSIVE ProjectileLoop(_, _)
ProjectileLoop(f, i) ==
    IF i = 0 \/ f.ref.projectiles = <<>> THEN f
    ELSE LET r == f.ref
             old == r.projectiles[i]
             proj == [old EXCEPT !.x = @ + PROJ_SPEED, !.y = @ + old.vy]
             moved == [r.projectiles EXCEPT ![i] = proj]
             j == HitPipe(r.pipes, proj, Len(r.pipes))
             pipes1 == IF j = 0 THEN r.pipes ELSE [r.pipes EXCEPT ![j].destroyed = TRUE]
             projs1 == IF j = 0 THEN moved ELSE SwapRemove(moved, i)
             exp1 == IF j = 0 THEN r.explosionParticles
                     ELSE Explode(r.explosionParticles, r.particleMultiplier)
             projs2 == IF proj.x > CanvasW + PROJ_MARGIN THEN JsSwapRemove(projs1, i)
                       ELSE projs1
             shot == [proj |-> proj, pipes |-> r.pipes, pipesAfter |-> pipes1,
                      projectiles |-> projs2,
                      sparks |-> Len(exp1) - Len(r.explosionParticles)]
             f1 == Upd(f, [projectiles |-> projs2, pipes |-> pipes1,
                           explosionParticles |-> exp1])
         IN ProjectileLoop([f1 EXCEPT !.obs.shots = Append(@, shot)], i - 1)

Projectiles(f) == ProjectileLoop(f, Len(f.ref.projectiles))

\* A particle loop: every life goes down by dec, a particle whose life is
\* then <= 0 is replaced by the last one and the array shortened.
RECURSIVE DecayLoop(_, _, _)
DecayLoop(arr, dec, i) ==
    IF i = 0 THEN arr
    ELSE LET life == arr[i] - dec
         IN DecayLoop(IF life <= 0 THEN SwapRemove(arr, i) ELSE [arr EXCEPT ![i] = life],
                      dec, i - 1)

\* === EXPLOSION PARTICLES === (lines 1760-1786)
ExplosionParticles(f) ==
    Upd(f, [explosionParticles |->
              DecayLoop(f.ref.explosionParticles, EXP_DECAY, Len(f.ref.explosionParticles))])

\* Heights Math.floor(Math.random() * (maxPipe - minPipe + 1)) + minPipe can
\* take: both extremes.
PipeHeights == {MIN_PIPE, MAX_PIPE}

PipeSpawnByScore(f) ==
    LET fc == f.ref.frameCount + 1
        f1 == Upd(f, [frameCount |-> fc])
    IN IF fc % PIPE_SPAWN_RATE = 0 /\ ~f.ref.bossIntroTriggered
       THEN { [Upd(f1, [pipes |-> Append(f.ref.pipes,
                          [id |-> f.hist.nextId, x |-> CanvasW, topHeight |-> h,
                           passed |-> FALSE, destroyed |-> FALSE])])
                EXCEPT !.hist.nextId = @ + 1] : h \in PipeHeights }
       ELSE {f1}

\* === PIPES === spawn (lines 1789-1796).  The id is not in the source: it
\* names the obstacle in the history.
PipeSpawn(f) ==
    LET fc == f.ref.frameCount + 1
        f1 == Upd(f, [frameCount |-> fc])
    IN IF fc % PIPE_SPAWN_RATE = 0
       THEN { [Upd(f1, [pipes |-> Append(f.ref.pipes,
                          [id |-> f.hist.nextId, x |-> CanvasW, topHeight |-> h,
                           passed |-> FALSE, destroyed |-> FALSE])])
                EXCEPT !.hist.nextId = @ + 1] : h \in PipeHeights }
       ELSE {f1}

\* The avatar / obstacle test with its top-segment branch only.
CollidesTop(p, e, birdY) ==
    /\ scaledBirdX < p.x + PIPE_WIDTH
    /\ scaledBirdX + e.scaledBirdSize > p.x
    /\ birdY < p.topHeight

\* The avatar / obstacle test of lines 1925-1926.
Collides(p, e, birdY) ==
    /\ scaledBirdX < p.x + PIPE_WIDTH
    /\ scaledBirdX + e.scaledBirdSize > p.x
    /\ (birdY < p.topHeight \/ birdY + e.scaledBirdSize > p.topHeight + PIPE_GAP)

\* The scoring test without its passed-flag guard.
PassesUnguarded(p) == p.x + PIPE_WIDTH < scaledBirdX

\* if (p.x + scaledPipeWidth < scaledBirdX && !p.passed)   (line 1963)
Passes(p) == p.x + PIPE_WIDTH < scaledBirdX /\ ~p.passed

OffLeftEdgeEarly(p) == p.x < scaledBirdX
\* if (p.x < -60 * scale)   (line 1968)
OffLeftEdge(p) == p.x < PIPE_REMOVE_X

\* === PIPES === the loop over the obstacles (lines 1798-1972).
RECURSIVE PipeLoop(_, _, _)
PipeLoop(f, e, i) ==
    IF i = 0 THEN f
    ELSE LET p0 == f.ref.pipes[i]
             p1 == [p0 EXCEPT !.x = @ - e.scaledPipeSpeed]
             hit == ~p1.destroyed /\ Collides(p1, e, f.ref.birdY)
             p2 == IF hit /\ f.ref.godMode THEN [p1 EXCEPT !.destroyed = TRUE] ELSE p1
             exp == IF hit /\ f.ref.godMode
                    THEN f.ref.explosionParticles
                         \o Repeat(EXP_LIFE, Round(GOD_EXP, f.ref.particleMultiplier))
                    ELSE f.ref.explosionParticles
             pass == Passes(p2)
             p3 == IF pass THEN [p2 EXCEPT !.passed = TRUE] ELSE p2
             kept == [f.ref.pipes EXCEPT ![i] = p3]
             pipes1 == IF OffLeftEdge(p3) THEN SwapRemove(kept, i) ELSE kept
             f1 == Upd(f, [pipes |-> pipes1, explosionParticles |-> exp])
             f2 == [f1 EXCEPT !.over = @ \/ (hit /\ ~f.ref.godMode),
                              !.hist.gone = IF OffLeftEdge(p3) THEN @ + 1 ELSE @,
                              !.obs.ended = IF hit /\ ~f.ref.godMode
                                            THEN @ \cup {"obstacle"} ELSE @,
                              !.incs = IF pass THEN @ + 1 ELSE @,
                              !.obs.scored = IF pass THEN @ \cup {p0.id} ELSE @,
                              !.obs.order = @ \o <<"move">>
                                              \o (IF p1.destroyed THEN <<>> ELSE <<"collision">>)
                                              \o (IF pass THEN <<"scoring">> ELSE <<>>),
                              !.hist.scoredIds = IF pass THEN Append(@, p0.id) ELSE @]
         IN PipeLoop(f2, e, i - 1)

Pipes(f, e) == { PipeLoop(g, e, Len(g.ref.pipes)) : g \in PipeSpawn(f) }

\* ---------------------------------------------------------------- weather
\* One drop and one grain stand for the random values of a spawn.
NewRainDrop == [x |-> 9500, y |-> 0 - 1000, speed |-> 600, length |-> 3000, vx |-> 0 - 100]
NewWisp == [x |-> 0 - 1000, speed |-> 400]
NewSand == [x |-> 0 - 1000, speed |-> 800]

\* const isApproachingSandstorm / const suppressRain   (lines 1989-1991)
IsApproachingSandstorm(r, sc) ==
    /\ r.sandstormEnabled
    /\ sc >= SANDSTORM_TRIGGER_SCORE - 5
    /\ sc < SANDSTORM_TRIGGER_SCORE
    /\ ~r.sandstormActiveRef

\* suppressRain without the pre-sandstorm window.
SuppressRainInStorm(r, sc) == r.sandstormActiveRef

\* const suppressRain = sandstormActiveRef.current || isApproachingSandstorm  (line 1993)
SuppressRain(r, sc) == r.sandstormActiveRef \/ IsApproachingSandstorm(r, sc)

RainOffScreen(drop) == drop.y > CanvasH \/ drop.x < 0 - 5000

\* Update rain drops, with the avatar test of lines 2040-2041.
RECURSIVE RainLoop(_, _, _)
RECURSIVE RainLoopHurts(_, _, _)
RainLoopHurts(r, e, i) ==
    IF i = 0 THEN r
    ELSE LET d0 == r.rainDrops[i]
             drop == [d0 EXCEPT !.y = @ + d0.speed, !.x = @ + d0.vx]
             moved == [r.rainDrops EXCEPT ![i] = drop]
             hit == /\ drop.x > scaledBirdX
                    /\ drop.x < scaledBirdX + e.scaledBirdSize
                    /\ drop.y + drop.length > r.birdY
                    /\ drop.y < r.birdY + e.scaledBirdSize
             r1 == IF hit
                   THEN Merge(r, [rainDrops |-> SwapRemove(moved, i),
                                  birdVelocity |-> r.birdVelocity + GRAVITY,
                                  splashParticles |-> r.splashParticles \o Repeat(30, 8)])
                   ELSE IF RainOffScreen(drop)
                   THEN Merge(r, [rainDrops |-> SwapRemove(moved, i)])
                   ELSE Merge(r, [rainDrops |-> moved])
         IN RainLoopHurts(r1, e, i - 1)
RainLoop(r, e, i) ==
    IF i = 0 THEN r
    ELSE LET d0 == r.rainDrops[i]
             drop == [d0 EXCEPT !.y = @ + d0.speed, !.x = @ + d0.vx]
             moved == [r.rainDrops EXCEPT ![i] = drop]
             hit == /\ drop.x > scaledBirdX
                    /\ drop.x < scaledBirdX + e.scaledBirdSize
                    /\ drop.y + drop.length > r.birdY
                    /\ drop.y < r.birdY + e.scaledBirdSize
             r1 == IF hit
                   THEN Merge(r, [rainDrops |-> SwapRemove(moved, i),
                                  splashParticles |-> r.splashParticles \o Repeat(30, 8)])
                   ELSE IF RainOffScreen(drop)
                   THEN Merge(r, [rainDrops |-> SwapRemove(moved, i)])
                   ELSE Merge(r, [rainDrops |-> moved])
         IN RainLoop(r1, e, i - 1)

\* === WEATHER SYSTEM === acid rain while it is active (lines 1992-2121)
AcidRain(f, e, sc, t) ==
    LET active == t - f.ref.gameStartTime > ACID_RAIN_DELAY
        step(g) == LET r1 == RainLoop(g.ref, e, Len(g.ref.rainDrops))
                   IN [g EXCEPT !.ref = Merge(r1, [splashParticles |->
                          DecayLoop(r1.splashParticles, 1, Len(r1.splashParticles))])]
        more == Upd(f, [rainDrops |-> Append(f.ref.rainDrops, NewRainDrop)])
        seen(g, on, n) == [g EXCEPT !.obs.rain = on, !.obs.drops = n,
                                    !.obs.rainEnabled = f.ref.acidRainEnabled]
    IN IF active /\ f.ref.acidRainEnabled /\ ~SuppressRain(f.ref, sc)
       THEN IF Len(f.ref.rainDrops) < MaxRain
            THEN {seen(step(f), TRUE, 0), seen(step(more), TRUE, 1)}
            ELSE {seen(step(f), TRUE, 0)}
       ELSE {seen(f, FALSE, 0)}

\* Ultra: update pill pickup particles (lines 2123-2150)
PillPickupParticles(f) ==
    Upd(f, [pillPickupParticles |->
              DecayLoop(f.ref.pillPickupParticles, 1, Len(f.ref.pillPickupParticles))])

\* rainDrops.splice(i, 1)
Splice(arr, i) == SubSeq(arr, 1, i - 1) \o SubSeq(arr, i + 1, Len(arr))

\* Existing rain drops draining off during the transition (lines 2237-2260)
RECURSIVE DrainLoop(_, _)
DrainLoop(arr, i) ==
    IF i = 0 THEN arr
    ELSE LET d0 == arr[i]
             drop == [d0 EXCEPT !.y = @ + d0.speed, !.x = @ + d0.vx]
         IN DrainLoop(IF RainOffScreen(drop) THEN Splice(arr, i)
                      ELSE [arr EXCEPT ![i] = drop], i - 1)

RainDrain(f, suppress) ==
    IF suppress /\ Len(f.ref.rainDrops) > 0
    THEN Upd(f, [rainDrops |-> DrainLoop(f.ref.rainDrops, Len(f.ref.rainDrops))])
    ELSE f

\* sand.x += sand.speed; removed once past the right edge.
RECURSIVE SandLoop(_, _)
SandLoop(arr, i) ==
    IF i = 0 THEN arr
    ELSE LET sand == [arr[i] EXCEPT !.x = @ + arr[i].speed]
         IN SandLoop(IF sand.x > CanvasW + SAND_GONE_X THEN SwapRemove(arr, i)
                     ELSE [arr EXCEPT ![i] = sand], i - 1)

\* Pre-sandstorm transition: a few early sand wisps and the pulsing
\* 'SANDSTORM INCOMING' warning (lines 2262-2300).  The wisp is drawn with
\* probability (score - preStormThreshold) / 5 * 0.15.
PreStorm(f, sc, approaching) ==
    LET step(g) == [Upd(g, [sandParticles |->
                              SandLoop(g.ref.sandParticles, Len(g.ref.sandParticles))])
                       EXCEPT !.obs.warning = TRUE]
        more == Upd(f, [sandParticles |-> Append(f.ref.sandParticles, NewWisp)])
    IN IF ~approaching THEN {f}
       ELSE IF sc > SANDSTORM_TRIGGER_SCORE - 5 /\ Len(f.ref.sandParticles) < MaxSand
       THEN {step(f), step(more)}
       ELSE {step(f)}

\* The sandstorm trigger without its lastSandstormScore latch.
StartsSandstormUnlatched(r, sc) ==
    /\ r.sandstormEnabled
    /\ sc >= SANDSTORM_TRIGGER_SCORE
    /\ sc % SANDSTORM_TRIGGER_SCORE = 0

\* Trigger sandstorm at score multiples of 60 (lines 2303-2309)
StartsSandstorm(r, sc) ==
    /\ r.sandstormEnabled
    /\ sc >= SANDSTORM_TRIGGER_SCORE
    /\ sc % SANDSTORM_TRIGGER_SCORE = 0
    /\ sc # r.lastSandstormScore

SandstormTrigger(f, sc, t) ==
    LET stormDuration == IF sc >= LEVEL_2_SCORE THEN SANDSTORM_DURATION_LVL2
                         ELSE SANDSTORM_DURATION_BASE
        f0 == [f EXCEPT !.obs.stormSeen = f.hist.stormScores,
                        !.obs.stormEnabled = f.ref.sandstormEnabled]
    IN IF StartsSandstorm(f.ref, sc)
       THEN [Upd(f0, [sandstormActiveRef |-> TRUE, sandstormEndTime |-> t + stormDuration,
                      lastSandstormScore |-> sc])
               EXCEPT !.obs.stormStarted = TRUE,
                      !.obs.stormDeadline = t + stormDuration,
                      !.hist.stormScores = @ \cup {sc}]
       ELSE f0

\* Check if sandstorm has expired (lines 2311-2315)
SandstormExpiry(f, t) ==
    IF f.ref.sandstormActiveRef /\ t > f.ref.sandstormEndTime
    THEN Upd(f, [sandstormActiveRef |-> FALSE, sandParticles |-> <<>>]) ELSE f

\* Spawn and update sand particles while the storm is on (lines 2317-2369)
SandstormParticles(f) ==
    LET step(g) == Upd(g, [sandParticles |->
                             SandLoop(g.ref.sandParticles, Len(g.ref.sandParticles))])
        more == Upd(f, [sandParticles |-> Append(f.ref.sandParticles, NewSand)])
    IN IF ~f.ref.sandstormActiveRef THEN {f}
       ELSE IF Len(f.ref.sandParticles) < MaxSand THEN {step(f), step(more)}
       ELSE {step(f)}

\* ------------------------------------------------------ taunts and the boss
\* TAUNT_MESSAGES[Math.floor(Math.random() * TAUNT_MESSAGES.length)]: the
\* first and the last message.
TauntChoices == {1, NUM_TAUNTS}

\* The taunt trigger without its !bossIntroActive.
StartsTauntOverBoss(r, sc) == sc > 0 /\ sc % TAUNT_EVERY = 0 /\ sc # r.lastTauntScore

\* Trigger a new taunt every 10 score points (lines 2372-2379)
StartsTaunt(r, sc) ==
    sc > 0 /\ sc % TAUNT_EVERY = 0 /\ sc # r.lastTauntScore /\ ~r.bossIntroActive

TauntTrigger(f, sc, t) ==
    IF StartsTaunt(f.ref, sc)
    THEN { [Upd(f, [currentTaunt |-> [msg |-> m], tauntEndTime |-> t + TAUNT_DURATION,
                    lastTauntScore |-> sc])
             EXCEPT !.obs.tauntStarted = TRUE, !.hist.tauntScores = @ \cup {sc}]
           : m \in TauntChoices }
    ELSE {f}

\* Draw taunt popup if active, else drop it once it is over (lines 2381-2450)
TauntClear(f, t) ==
    LET shown == f.ref.currentTaunt # NULL /\ t < f.ref.tauntEndTime /\ ~f.ref.bossIntroActive
        f1 == [f EXCEPT !.obs.tauntShown = shown]
    IN IF ~shown /\ t >= f.ref.tauntEndTime THEN Upd(f1, [currentTaunt |-> NULL]) ELSE f1

\* The boss trigger without its bossIntroTriggered latch.
StartsBossUnlatched(r, sc) == sc >= LEVEL_2_SCORE

\* if (score >= LEVEL_2_SCORE && !bossIntroTriggered.current)  (lines 2452-2460)
StartsBoss(r, sc) == sc >= LEVEL_2_SCORE /\ ~r.bossIntroTriggered

BossTrigger(f, sc, t) ==
    IF StartsBoss(f.ref, sc)
    THEN [Upd(f, [bossIntroTriggered |-> TRUE, bossIntroActive |-> TRUE,
                  bossIntroStartTime |-> t, bossMessageIndex |-> 0, bossCharIndex |-> 0,
                  bossLastCharTime |-> t + BOSS_GLITCH_DURATION])
            EXCEPT !.obs.bossStarted = TRUE, !.hist.bossStarts = @ + 1]
    ELSE f

\* The boss typewriter without the pause between two messages.
BossIntroNoPause(f, t) ==
    LET r == f.ref
        elapsed == t - r.bossIntroStartTime
        len == BOSS_MESSAGES[r.bossMessageIndex + 1]
        types == r.bossCharIndex < len /\ t - r.bossLastCharTime > BOSS_MESSAGE_CHAR_SPEED
        char1 == IF types THEN r.bossCharIndex + 1 ELSE r.bossCharIndex
        last1 == IF types THEN t ELSE r.bossLastCharTime
    IN IF ~r.bossIntroActive \/ elapsed < BOSS_GLITCH_DURATION THEN f
       ELSE IF r.bossMessageIndex < Len(BOSS_MESSAGES)
       THEN IF char1 >= len
            THEN Upd(f, [bossMessageIndex |-> r.bossMessageIndex + 1, bossCharIndex |-> 0,
                         bossLastCharTime |-> t])
            ELSE Upd(f, [bossCharIndex |-> char1, bossLastCharTime |-> last1])
       ELSE IF t - r.bossLastCharTime >= BOSS_FADE
       THEN Upd(f, [bossIntroActive |-> FALSE])
       ELSE f

\* The boss typewriter (lines 2462-2620): glitch, then one character per
\* BOSS_MESSAGE_CHAR_SPEED, a pause after each message, then the fade.
BossIntro(f, t) ==
    LET r == f.ref
        elapsed == t - r.bossIntroStartTime
        len == BOSS_MESSAGES[r.bossMessageIndex + 1]
        types == r.bossCharIndex < len /\ t - r.bossLastCharTime > BOSS_MESSAGE_CHAR_SPEED
        char1 == IF types THEN r.bossCharIndex + 1 ELSE r.bossCharIndex
        last1 == IF types THEN t ELSE r.bossLastCharTime
        next == char1 >= len /\ t - last1 > BOSS_MESSAGE_PAUSE
    IN IF ~r.bossIntroActive \/ elapsed < BOSS_GLITCH_DURATION THEN f
       ELSE IF r.bossMessageIndex < Len(BOSS_MESSAGES)
       THEN IF next
            THEN Upd(f, [bossMessageIndex |-> r.bossMessageIndex + 1, bossCharIndex |-> 0,
                         bossLastCharTime |-> t])
            ELSE Upd(f, [bossCharIndex |-> char1, bossLastCharTime |-> last1])
       ELSE IF t - r.bossLastCharTime >= BOSS_FADE
       THEN Upd(f, [bossIntroActive |-> FALSE])
       ELSE f

\* Out of bounds (lines 2625-2629)
OutOfBounds(f, e) ==
    LET f1 == [f EXCEPT !.obs.endY = f.ref.birdY, !.obs.endV = f.ref.birdVelocity]
    IN IF (f.ref.birdY + e.scaledBirdSize >= GROUND_Y_GAME \/ f.ref.birdY < 0)
          /\ ~f.ref.godMode
       THEN [f1 EXCEPT !.over = TRUE, !.obs.ended = @ \cup {"bounds"}] ELSE f1

\* ------------------------------------------------------------- render()
\* The PLAYING block with the obstacle block moved behind the taunt and the
\* boss intro.
PlayingPipesLast(f0, e, sc, t) ==
    LET s1 == GreenSpawn(Log(Physics(PowerUpExpiry(f0, t), e), "physics"))
        s2 == Bind(s1, LAMBDA f: GreenMove(f, e, t))
        s3 == Bind(s2, BlueSpawn)
        s4 == Bind(s3, LAMBDA f: BlueMove(f, e, t))
        s5 == Bind(s4, LAMBDA f: PosterMove(PosterSpawn(BlueExpiry(f, t)), e, t))
        s6 == { ExplosionParticles(Projectiles(PosterAutoFire(PosterExpiry(f, t), e)))
                : f \in s5 }
        s8 == Bind(s6, LAMBDA f: AcidRain(Log(f, "hazards"), e, sc, t))
        s9 == { RainDrain(PillPickupParticles(f), SuppressRain(f.ref, sc)) : f \in s8 }
        s10 == Bind(s9, LAMBDA f: PreStorm(f, sc, IsApproachingSandstorm(f.ref, sc)))
        s11 == { SandstormExpiry(SandstormTrigger(f, sc, t), t) : f \in s10 }
        s12 == Bind(s11, SandstormParticles)
        s13 == Bind(s12, LAMBDA f: TauntTrigger(Log(f, "narrative"), sc, t))
        s14 == { BossIntro(BossTrigger(TauntClear(f, t), sc, t), t) : f \in s13 }
        s15 == Bind(s14, LAMBDA f: Pipes(Log(f, "spawning"), e))
    IN { OutOfBounds(f, e) : f \in s15 }

\* The PLAYING block of render (lines 1396-2630), its steps in source order.
\* e holds the values of the effect setup, sc the captured score, t is
\* Date.now() during the frame.
Playing(f0, e, sc, t) ==
    LET s1 == GreenSpawn(Log(Physics(PowerUpExpiry(f0, t), e), "physics"))
        s2 == Bind(s1, LAMBDA f: GreenMove(f, e, t))
        s3 == Bind(s2, BlueSpawn)
        s4 == Bind(s3, LAMBDA f: BlueMove(f, e, t))
        s5 == Bind(s4, LAMBDA f: PosterMove(PosterSpawn(BlueExpiry(f, t)), e, t))
        s6 == { ExplosionParticles(Projectiles(PosterAutoFire(PosterExpiry(f, t), e)))
                : f \in s5 }
        s7 == Bind(s6, LAMBDA f: Pipes(Log(f, "spawning"), e))
        s8 == Bind(s7, LAMBDA f: AcidRain(Log(f, "hazards"), e, sc, t))
        s9 == { RainDrain(PillPickupParticles(f), SuppressRain(f.ref, sc)) : f \in s8 }
        s10 == Bind(s9, LAMBDA f: PreStorm(f, sc, IsApproachingSandstorm(f.ref, sc)))
        s11 == { SandstormExpiry(SandstormTrigger(f, sc, t), t) : f \in s10 }
        s12 == Bind(s11, SandstormParticles)
        s13 == Bind(s12, LAMBDA f: TauntTrigger(Log(f, "narrative"), sc, t))
    IN { OutOfBounds(BossIntro(BossTrigger(TauntClear(f, t), sc, t), t), e) : f \in s13 }

\* The GAME_OVER block saving on every call, without the scoreSaved latch.
GameOverUnlatched(f, sc) ==
    LET updated == saveHighScore(f.stored, sc)
    IN [Upd(f, [scoreSaved |-> TRUE])
          EXCEPT !.stored = updated, !.highScores = updated, !.obs.saveCalled = TRUE,
                 !.hist.saves = Append(@, [session |-> f.hist.session, score |-> sc])]

\* The GAME_OVER block (lines 2934-2940): save score once on game over.
GameOver(f, sc) ==
    IF ~f.ref.scoreSaved
    THEN LET updated == saveHighScore(f.stored, sc)
         IN [Upd(f, [scoreSaved |-> TRUE])
               EXCEPT !.stored = updated, !.highScores = updated, !.obs.saveCalled = TRUE,
                      !.hist.saves = Append(@, [session |-> f.hist.session, score |-> sc])]
    ELSE f

\* render() with the PAUSED block simulating like the PLAYING block.
RenderPausedSimulates(gs, sc, r, h, st, hs, e, t) ==
    LET f0 == [NewFrame(r, h, st, hs) EXCEPT
                  !.obs.branch = gs, !.obs.score = sc,
                  !.obs.birdSize = e.scaledBirdSize, !.obs.pipeSpeed = e.scaledPipeSpeed,
                  !.obs.blue0 = r.bluePillActive, !.obs.poster0 = r.posterActive,
                  !.obs.sand0 = r.sandstormActiveRef]
    IN CASE gs \in {"PLAYING", "PAUSED"} -> Playing(f0, e, sc, t)
         [] gs = "GAME_OVER" -> {GameOver(f0, sc)}
         [] OTHER -> {f0}

\* One call of render() with the captured phase gs and score sc.  The START,
\* PAUSED and TITLE blocks only draw.
Render(gs, sc, r, h, st, hs, e, t) ==
    LET f0 == [NewFrame(r, h, st, hs) EXCEPT
                  !.obs.branch = gs, !.obs.score = sc,
                  !.obs.birdSize = e.scaledBirdSize, !.obs.pipeSpeed = e.scaledPipeSpeed,
                  !.obs.blue0 = r.bluePillActive, !.obs.poster0 = r.posterActive,
                  !.obs.sand0 = r.sandstormActiveRef]
    IN CASE gs = "PLAYING" -> Playing(f0, e, sc, t)
         [] gs = "GAME_OVER" -> {GameOver(f0, sc)}
         [] OTHER -> {f0}

\* The callbacks on the host's list: the one animationFrameId.current names
\* (held) and the others.
Pending(q) == (IF q.held THEN {"held"} ELSE {}) \cup (IF q.others > 0 THEN {"other"} ELSE {})

\* The host takes the callback c off its list and calls it.
Fired(q, c) == IF c = "held" THEN [q EXCEPT !.held = FALSE] ELSE [q EXCEPT !.others = @ - 1]

\* A cleanup that cancels nothing.
CleanupNothing(q) == q

\* return () => { cancelAnimationFrame(animationFrameId.current) }  (lines 3079-3081)
Cleanup(q) == [q EXCEPT !.held = FALSE]

\* animationFrameId.current = requestAnimationFrame(render)  (line 3074): the
\* cell names the new callback, and the one it named is one of the others if
\* it is still on the list.
Schedule(q) == [held |-> TRUE, others |-> q.others + (IF q.held THEN 1 ELSE 0)]

\* The end of render() with the request inside the try statement.
AfterRenderInTry(q, threw) == IF threw THEN q ELSE Schedule(q)

\* The end of render() (lines 3063-3075): the catch block draws, and the
\* next callback is requested behind the try statement, thrown or not.
AfterRender(q, threw) == Schedule(q)

\* What a call of render() leaves behind once React has committed the
\* queued setters: the effect is due again iff gameState or score changed.
Commit(f, e, t, n, q) ==
    /\ raf' = AfterRender(q, f.obs.error)
    /\ ref' = f.ref
    /\ stored' = f.stored
    /\ highScores' = f.highScores
    /\ obs' = f.obs
    /\ hist' = f.hist
    /\ score' = score + f.incs
    /\ gameState' = IF f.over THEN "GAME_OVER" ELSE gameState
    /\ dirty' = (f.over \/ f.incs > 0)
    /\ eff' = e
    /\ now' = t
    /\ ticks' = n
    /\ UNCHANGED <<menuScreen, activeTab, inputs, menuKeys, graphicsQuality, keyTab>>

\* A requestAnimationFrame callback: render() with the values the effect
\* captured, dt ms after the previous frame.
FrameAfter(delays) ==
    /\ ~dirty
    /\ ticks < MaxTicks
    /\ gameState \in {"TITLE", "START"} => ticks < MaxIdleTicks
    /\ \E dt \in delays, c \in Pending(raf) :
         /\ dt # FRAME_MS => gameState = "PLAYING" /\ hist.stalls < MaxStalls
         /\ \E f \in Render(gameState, score, ref,
                            [hist EXCEPT !.stalls = IF dt # FRAME_MS THEN @ + 1 ELSE @],
                            stored, highScores, eff, now + dt) :
               Commit(f, eff, now + dt, ticks + 1, Fired(raf, c))

Frame == FrameAfter({FRAME_MS, STALL_MS})

\* The callback after the tab was in the background for a few seconds.
Hitch == FrameAfter({HITCH_MS})

\* A call of render() in which a statement throws, either a drawing call
\* ahead of the phase blocks (early) or one behind them; the catch block
\* (lines 3063-3073) draws 'Render Error'.  faults counts the calls in a row
\* that threw.
Thrown(gs, sc, r, h, st, hs, e, t, early) ==
    { [f EXCEPT !.obs.error = TRUE, !.obs.faults = obs.faults + 1] :
        f \in IF early
              THEN {[NewFrame(r, h, st, hs) EXCEPT !.obs.branch = gs, !.obs.score = sc]}
              ELSE Render(gs, sc, r, h, st, hs, e, t) }

FaultyFrame ==
    /\ ~dirty
    /\ ticks < MaxTicks
    /\ \E c \in Pending(raf), early \in BOOLEAN :
         \E f \in Thrown(gameState, score, ref, hist, stored, highScores, eff,
                         now + FRAME_MS, early) :
            Commit(f, eff, now + FRAME_MS, ticks + 1, Fired(raf, c))

\* The render effect is torn down and set up again after a commit that
\* changed one of [gameState, score, canvasSize, menuScreen, graphicsQuality]:
\* the setup computes its values afresh and calls render() once.
EffectRerun ==
    /\ dirty
    /\ LET e == EffectSetup(ref)
       IN \E f \in Render(gameState, score, ref, hist, stored, highScores, e, now) :
            Commit(f, e, now, ticks, Cleanup(raf))

\* ---------------------------------------------------------------- handlers
\* startGame() with resetGame's setGameState('START') committed instead of
\* its own setGameState('PLAYING').
startGameToMenu(r) ==
    /\ hist.session < MaxSessions
    /\ ref' = Merge(resetGame(r), [gameStartTime |-> now, songLevel |-> 1])
    /\ score' = 0
    /\ gameState' = "START"
    /\ dirty' = TRUE
    /\ obs' = [ObsNone EXCEPT !.branch = "startGame"]
    /\ hist' = [hist EXCEPT !.session = @ + 1, !.stormScores = {}, !.tauntScores = {},
                            !.bossStarts = 0,
                            !.scoredIds = <<>>, !.base = 0, !.gone = 0,
                            !.spawned = [k \in PickupKinds |-> 0],
                            !.collected = [k \in PickupKinds |-> 0]]

\* startGame() (lines 634-647): resetGame(), then the cells it sets itself.
\* Of resetGame's setGameState('START') and startGame's
\* setGameState('PLAYING') the last one is committed; setScore(0) with it.
startGame(r) ==
    /\ hist.session < MaxSessions
    /\ ref' = Merge(resetGame(r), [gameStartTime |-> now, songLevel |-> 1])
    /\ score' = 0
    /\ gameState' = "PLAYING"
    /\ dirty' = TRUE
    /\ obs' = [ObsNone EXCEPT !.branch = "startGame"]
    /\ hist' = [hist EXCEPT !.session = @ + 1, !.stormScores = {}, !.tauntScores = {},
                            !.bossStarts = 0,
                            !.scoredIds = <<>>, !.base = 0, !.gone = 0,
                            !.spawned = [k \in PickupKinds |-> 0],
                            !.collected = [k \in PickupKinds |-> 0]]

\* jump() while PLAYING (lines 732-752): lift, and a shot while a power-up is on.
JumpVy == <<0 - 118, 0 - 60, 0, 60, 118>>     \* Math.sin(angle) * 4 * scale

jump(r) ==
    LET at(vy) == [x |-> 8000, y |-> r.birdY + 1500, vy |-> vy]
        shots == IF r.posterActive THEN [k \in 1..5 |-> at(JumpVy[k])]
                 ELSE IF r.powerUpActive THEN <<at(0)>>
                 ELSE <<>>
    IN Merge(r, [birdVelocity |-> LIFT, projectiles |-> r.projectiles \o shots])

\* Space / ArrowUp, or a click or tap, while PLAYING.
Jump ==
    /\ ~dirty /\ gameState = "PLAYING" /\ inputs < MaxInputs
    /\ ref' = jump(ref)
    /\ inputs' = inputs + 1
    /\ UNCHANGED <<gameState, score, highScores, menuScreen, activeTab, stored, eff, dirty,
                   now, raf, obs, hist, ticks, menuKeys, graphicsQuality, keyTab>>

\* togglePause() (lines 785-791) on Escape / Enter.
TogglePause ==
    /\ ~dirty /\ gameState \in {"PLAYING", "PAUSED"} /\ inputs < MaxInputs
    /\ gameState' = IF gameState = "PLAYING" THEN "PAUSED" ELSE "PLAYING"
    /\ dirty' = TRUE
    /\ inputs' = inputs + 1
    /\ UNCHANGED <<score, highScores, menuScreen, activeTab, stored, ref, eff, now, raf, obs,
                   hist, ticks, menuKeys, graphicsQuality, keyTab>>

\* A click while PAUSED: jump() resumes (lines 780-782).
ClickPaused ==
    /\ ~dirty /\ gameState = "PAUSED" /\ inputs < MaxInputs
    /\ gameState' = "PLAYING"
    /\ dirty' = TRUE
    /\ inputs' = inputs + 1
    /\ UNCHANGED <<score, highScores, menuScreen, activeTab, stored, ref, eff, now, raf, obs,
                   hist, ticks, menuKeys, graphicsQuality, keyTab>>

\* Space / Enter or a click while GAME_OVER: startGame().
Restart ==
    /\ ~dirty /\ gameState = "GAME_OVER" /\ inputs < MaxInputs
    /\ startGame(ref)
    /\ inputs' = inputs + 1
    /\ UNCHANGED <<highScores, menuScreen, activeTab, stored, eff, now, raf, ticks, menuKeys,
                   graphicsQuality, keyTab>>

\* <audio onEnded> (lines 3316-3331): the game track ended.  The track plays
\* while the phase is PLAYING (lines 323-330), and the third one loops.
TrackEnded ==
    /\ ~dirty /\ gameState = "PLAYING"
    /\ ref.songLevel < 3
    /\ inputs < MaxInputs
    /\ inputs' = inputs + 1
    /\ ref' = [ref EXCEPT !.songLevel = IF @ = 1 THEN 2 ELSE IF @ = 2 THEN 3 ELSE @]
    /\ UNCHANGED <<gameState, score, highScores, menuScreen, activeTab, stored, eff, dirty,
                   now, raf, obs, hist, ticks, menuKeys, graphicsQuality, keyTab>>

\* The GAMEPLAY checkboxes of the dev panel (lines 3208-3226).  The panel is
\* inside the container whose onClick is jump and does not stop the click,
\* so the click that flips the cell also calls jump().
DevToggles == {"sandstormEnabled", "godMode"}

DevToggle ==
    /\ ~dirty /\ gameState \in {"PLAYING", "PAUSED", "GAME_OVER"} /\ inputs < MaxInputs
    /\ inputs' = inputs + 1
    /\ \E c \in DevToggles :
         LET r == [ref EXCEPT ![c] = ~@]
         IN CASE gameState = "PLAYING" ->
                   /\ ref' = jump(r)
                   /\ UNCHANGED <<gameState, score, dirty, obs, hist>>
              [] gameState = "PAUSED" ->
                   /\ ref' = r
                   /\ gameState' = "PLAYING"
                   /\ dirty' = TRUE
                   /\ UNCHANGED <<score, obs, hist>>
              [] gameState = "GAME_OVER" -> startGame(r)
    /\ UNCHANGED <<highScores, menuScreen, activeTab, stored, eff, now, raf, ticks, menuKeys,
                   graphicsQuality, keyTab>>

\* -------------------------------------------------------------------- menu
MENU_ITEMS_MAIN == <<"START", "OPTIONS">>
GRAPHICS_ITEMS == <<"QUALITY", "RESOLUTION", "Fog", "Skyline", "Beacons", "Flying Cars",
                    "Glow Effects", "Particles", "Weather FX", "Bird Glow", "BACK">>
AUDIO_ITEMS == <<"Master Volume", "Music Volume", "BACK">>
QUALITY_ORDER == <<"LOW", "MEDIUM", "HIGH", "ULTRA">>

ItemsOf(screen, tab) ==
    IF screen = "MAIN" THEN MENU_ITEMS_MAIN
    ELSE IF tab = "GRAPHICS" THEN GRAPHICS_ITEMS ELSE AUDIO_ITEMS

\* items[i] with a 0-based index; "undefined" past the end.
ItemAt(items, i) == IF i >= 0 /\ i < Len(items) THEN items[i + 1] ELSE "undefined"

\* QUALITY_ORDER.indexOf(graphicsQuality), 0-based, -1 for 'CUSTOM'.
QualityIndex(q) ==
    IF \E k \in 1..4 : QUALITY_ORDER[k] = q
    THEN (CHOOSE k \in 1..4 : QUALITY_ORDER[k] = q) - 1 ELSE 0 - 1

\* applyGraphicsPreset(quality) (lines 550-564): the cells the model keeps.
applyGraphicsPreset(r, q) ==
    Merge(r, [showBirdGlow |-> (q = "ULTRA"),
              particleMultiplier |-> CASE q = "LOW" -> 50 [] q = "ULTRA" -> 200 [] OTHER -> 100])

\* toggleOptionItem(item) (lines 702-716)
toggleOptionItem(r, item) ==
    IF item = "Bird Glow" THEN [r EXCEPT !.showBirdGlow = ~@] ELSE r

\* The keydown effect and the render effect both depend on menuScreen and
\* graphicsQuality: after a change the handler sees the current activeTab.
MenuCommit(screen, tab, q) ==
    /\ menuScreen' = screen
    /\ activeTab' = tab
    /\ graphicsQuality' = q
    /\ dirty' = (screen # menuScreen \/ q # graphicsQuality)
    /\ keyTab' = IF screen # menuScreen \/ q # graphicsQuality THEN tab ELSE keyTab
    /\ UNCHANGED <<gameState, score, obs, hist>>

\* handleMenuSelect() (lines 662-700) as called by a handler that sees
\* activeTab = tab, with the cells r.  The RESOLUTION item is left alone: the
\* model keeps the canvas at 400 x 600.
handleMenuSelect(r, tab) ==
    LET item == ItemAt(ItemsOf(menuScreen, tab), r.selectedMenuItem)
        idx == QualityIndex(graphicsQuality)
        next == QUALITY_ORDER[((idx + 1) % 4) + 1]
    IN /\ item # "RESOLUTION"
       /\ CASE menuScreen = "MAIN" /\ item = "START" ->
                 /\ startGame(r)
                 /\ keyTab' = activeTab
                 /\ UNCHANGED <<menuScreen, activeTab, graphicsQuality>>
            [] menuScreen = "MAIN" /\ item = "OPTIONS" ->
                 /\ ref' = [r EXCEPT !.selectedMenuItem = 0]
                 /\ MenuCommit("OPTIONS", "GRAPHICS", graphicsQuality)
            [] menuScreen = "OPTIONS" /\ item = "BACK" ->
                 /\ ref' = [r EXCEPT !.selectedMenuItem = 1]
                 /\ MenuCommit("MAIN", activeTab, graphicsQuality)
            [] menuScreen = "OPTIONS" /\ item # "BACK" /\ tab = "GRAPHICS" ->
                 IF item = "QUALITY"
                 THEN /\ ref' = applyGraphicsPreset(r, next)
                      /\ MenuCommit(menuScreen, activeTab, next)
                 ELSE /\ ref' = toggleOptionItem(r, item)
                      /\ MenuCommit(menuScreen, activeTab, "CUSTOM")
            [] OTHER ->
                 /\ ref' = r
                 /\ MenuCommit(menuScreen, activeTab, graphicsQuality)

MenuStep ==
    /\ ~dirty /\ gameState = "START" /\ menuKeys < MaxMenuKeys
    /\ menuKeys' = menuKeys + 1
    /\ UNCHANGED <<highScores, stored, eff, now, raf, ticks, inputs>>

\* Any key on the TITLE screen (lines 798-801).
TitleKey ==
    /\ ~dirty /\ gameState = "TITLE" /\ menuKeys < MaxMenuKeys
    /\ gameState' = "START"
    /\ dirty' = TRUE
    /\ menuKeys' = menuKeys + 1
    /\ UNCHANGED <<score, highScores, menuScreen, activeTab, stored, ref, eff, now, raf, obs,
                   hist, ticks, inputs, graphicsQuality, keyTab>>

\* Q / E / Tab (lines 805-811): the next tab after the one the handler sees.
MenuTab ==
    /\ MenuStep
    /\ ref' = [ref EXCEPT !.selectedMenuItem = 0]
    /\ MenuCommit(menuScreen, IF keyTab = "GRAPHICS" THEN "AUDIO" ELSE "GRAPHICS",
                  graphicsQuality)

\* ArrowUp / ArrowDown (lines 814-822)
MenuArrow ==
    /\ MenuStep
    /\ \E d \in {0 - 1, 1} :
         LET n == Len(ItemsOf(menuScreen, keyTab))
         IN ref' = [ref EXCEPT !.selectedMenuItem = (@ + d + n) % n]
    /\ MenuCommit(menuScreen, activeTab, graphicsQuality)

\* ArrowLeft / ArrowRight on the first item with the GRAPHICS tab (lines 825-837)
MenuQuality ==
    /\ MenuStep
    /\ keyTab = "GRAPHICS" /\ ref.selectedMenuItem = 0
    /\ \E d \in {0 - 1, 1} :
         LET q == QUALITY_ORDER[((QualityIndex(graphicsQuality) + d + 4) % 4) + 1]
         IN /\ ref' = applyGraphicsPreset(ref, q)
            /\ MenuCommit(menuScreen, activeTab, q)

\* Space / Enter (lines 852-854)
MenuEnter == MenuStep /\ handleMenuSelect(ref, keyTab)

\* Escape on the OPTIONS screen (lines 855-859)
MenuEscape ==
    /\ MenuStep
    /\ menuScreen = "OPTIONS"
    /\ ref' = [ref EXCEPT !.selectedMenuItem = 1]
    /\ MenuCommit("MAIN", activeTab, graphicsQuality)

\* The pointer moves over item i (mouseMenuItem = i), clicks, and leaves the
\* canvas (mouseMenuItem = -1): jump() on START (lines 754-757).
MenuClick ==
    /\ MenuStep
    /\ \E i \in 0..(Len(ItemsOf(menuScreen, activeTab)) - 1) :
         handleMenuSelect([ref EXCEPT !.selectedMenuItem = i], activeTab)

\* The pointer over a tab of the OPTIONS panel (mouseMenuItem = -1), then a
\* click (lines 758-776).
TabClick ==
    /\ MenuStep
    /\ menuScreen = "OPTIONS"
    /\ \E tab \in {"GRAPHICS", "AUDIO"} :
         /\ ref' = [ref EXCEPT !.selectedMenuItem = 0, !.mouseMenuItem = 0 - 1]
         /\ MenuCommit(menuScreen, tab, graphicsQuality)

\* onMouseMove on the canvas (lines 3102-3147): outside START the hover is
\* cleared; on START it becomes the item of the list now shown that lies under
\* the pointer, or -1.  The handler is created by every render, so it sees the
\* current menuScreen and activeTab.
MouseMove ==
    /\ ~dirty
    /\ \E i \in (0 - 1)..(Len(ItemsOf(menuScreen, activeTab)) - 1) :
         ref' = [ref EXCEPT !.mouseMenuItem = IF gameState # "START" THEN 0 - 1 ELSE i]
    /\ ref' # ref
    /\ UNCHANGED <<gameState, score, highScores, menuScreen, activeTab, stored, eff, dirty,
                   now, raf, obs, hist, ticks, inputs, menuKeys, graphicsQuality, keyTab>>

\* onMouseLeave (line 3148)
MouseLeave ==
    /\ ~dirty /\ ref.mouseMenuItem # 0 - 1
    /\ ref' = [ref EXCEPT !.mouseMenuItem = 0 - 1]
    /\ UNCHANGED <<gameState, score, highScores, menuScreen, activeTab, stored, eff, dirty,
                   now, raf, obs, hist, ticks, inputs, menuKeys, graphicsQuality, keyTab>>

\* A click with the pointer where the last move left it: jump() on START with
\* a hover (lines 754-757).  onClick is bound by every render.
HoverClick ==
    /\ MenuStep
    /\ ref.mouseMenuItem # 0 - 1
    /\ handleMenuSelect([ref EXCEPT !.selectedMenuItem = ref.mouseMenuItem], activeTab)

\* A window resize that leaves the size alone (lines 400-432): setCanvasSize
\* gets a new object, so both effects are set up again.
Resize ==
    /\ ~dirty
    /\ IF gameState \in {"TITLE", "START"}
       THEN menuKeys < MaxMenuKeys /\ menuKeys' = menuKeys + 1 /\ inputs' = inputs
       ELSE inputs < MaxInputs /\ inputs' = inputs + 1 /\ menuKeys' = menuKeys
    /\ dirty' = TRUE
    /\ keyTab' = activeTab
    /\ UNCHANGED <<gameState, score, highScores, menuScreen, activeTab, stored, ref, eff,
                   now, raf, obs, hist, ticks, graphicsQuality>>

\* ------------------------------------------------------------ initial states
\* Date.now() when the component is constructed, or when the session of a
\* checkpoint started.
T0 == 1000000

\* A session in progress with score sc and one obstacle on screen, spawned n
\* frames ago with top height top: the cells as startGame() and the frames
\* since have left them.
Checkpoint(sc, n, top, y, v) ==
    Merge(FreshRefs,
          [birdY |-> y, birdVelocity |-> v,
           pipes |-> <<[id |-> 1, x |-> CanvasW - PIPE_SPEED * (n + 1), topHeight |-> top,
                        passed |-> FALSE, destroyed |-> FALSE]>>,
           frameCount |-> PIPE_SPAWN_RATE * (sc + 1) + n,
           gameStartTime |-> T0,
           pillSpawnTimer |-> 300, bluePillSpawnTimer |-> 300, posterSpawnTimer |-> 1900,
           lastTauntScore |-> (sc \div TAUNT_EVERY) * TAUNT_EVERY,
           lastSandstormScore |-> (sc \div SANDSTORM_TRIGGER_SCORE) * SANDSTORM_TRIGGER_SCORE,
           bossIntroTriggered |-> (sc >= LEVEL_2_SCORE),
           bossMessageIndex |-> IF sc >= LEVEL_2_SCORE THEN Len(BOSS_MESSAGES) ELSE 0,
           bossIntroStartTime |-> IF sc >= LEVEL_2_SCORE THEN T0 + 1 ELSE 0,
           bossLastCharTime |-> IF sc >= LEVEL_2_SCORE THEN T0 + 2 ELSE 0])

CheckpointNow(r) == T0 + FRAME_MS * r.frameCount

\* The avatar in the gap of an obstacle that is about to pass it.
\* Since score 55 the rain has drained off and a wisp of sand is in the air.
\* At other scores a drop of the acid rain is falling.
InGap(sc) ==
    Merge(Checkpoint(sc, 146, 30000, 38000, 25),
          IF sc >= SANDSTORM_TRIGGER_SCORE - 5 /\ sc < SANDSTORM_TRIGGER_SCORE
          THEN [sandParticles |-> <<[NewWisp EXCEPT !.x = 20000]>>]
          ELSE [rainDrops |-> <<[NewRainDrop EXCEPT !.x = 30000, !.y = 20000]>>])

\* A pickup of each kind just ahead of the avatar, spawned behind the
\* previous obstacle.
WithPickup(kind) ==
    CASE kind = "green" ->
           Merge(InGap(31), [pill |-> [x |-> 11600, y |-> 37500, rotation |-> 152],
                             pillSpawnTimer |-> 152])
      [] kind = "blue" ->
           Merge(InGap(31), [bluePill |-> [x |-> 11600, y |-> 40500, rotation |-> 162],
                             bluePillSpawnTimer |-> 162])
      [] kind = "poster" ->
           Merge(InGap(31), [poster |-> [x |-> 14125, y |-> 38500, rotation |-> 165],
                             posterSpawnTimer |-> 165])

\* The avatar low under the gap of an obstacle ahead and falling, the mega
\* power-up on and its auto-fire two frames from the next volley.
Mega ==
    LET r == Checkpoint(30, 111, MIN_PIPE, 53000, 400)
    IN Merge(r, [posterActive |-> TRUE, posterEndTime |-> CheckpointNow(r) + 3000,
                 powerUpActive |-> TRUE, powerUpEndTime |-> CheckpointNow(r) + 3000,
                 posterAutoFireTimer |-> 3, posterSpawnTimer |-> 250])

\* The obstacle about to pass the avatar was shot before.
Shot == [InGap(31) EXCEPT !.pipes[1].destroyed = TRUE]

\* The same with acid rain switched off on the dev panel, and with the
\* sandstorm switched off as well.
Dry(r) == Merge(r, [acidRainEnabled |-> FALSE, rainDrops |-> <<>>])
Calm(r) == Merge(Dry(r), [sandstormEnabled |-> FALSE, sandParticles |-> <<>>])

\* The mega power-up collected half a second ago, and a green pill ahead.
MegaPill ==
    LET r == WithPickup("green")
    IN Merge(r, [posterActive |-> TRUE, posterEndTime |-> CheckpointNow(r) + 6000,
                 powerUpActive |-> TRUE, powerUpEndTime |-> CheckpointNow(r) + 6000,
                 posterAutoFireTimer |-> 3, posterSpawnTimer |-> 31])

\* The avatar one frame above the ground line, about to leave through the
\* top, and about to touch the ground line exactly with god mode on.
Falling == Checkpoint(30, 111, MIN_PIPE, 54500, 400)
Rising == Checkpoint(30, 111, MIN_PIPE, 200, 0 - 300)
Grazing == Merge(Checkpoint(30, 111, MIN_PIPE, 54900, 85), [godMode |-> TRUE])

\* God mode on and the avatar level with the top segment of the obstacle
\* that is about to reach it.
Ramming == Merge(Checkpoint(30, 115, 30000, 20000, 0), [godMode |-> TRUE])

\* The power-shot on and the avatar level with the gap of the obstacle ahead.
Aiming ==
    LET r == Checkpoint(30, 111, 30000, 38000, 25)
    IN Merge(r, [powerUpActive |-> TRUE, powerUpEndTime |-> CheckpointNow(r) + 3000])

\* A session that started less than five seconds ago: no rain yet.
Early == Merge(InGap(0), [rainDrops |-> <<>>])

\* The boss intro fading out after its last message while the score is about
\* to reach 160 (a display that refreshes faster than 60 times a second).
BossFading ==
    LET r == InGap(159)
    IN Merge(r, [bossIntroActive |-> TRUE,
                 bossIntroStartTime |-> CheckpointNow(r) - 14000,
                 bossLastCharTime |-> CheckpointNow(r) - 1450])

\* God mode on and the pills switched off on the dev panel, one obstacle
\* before the boss intro.
BeforeBoss ==
    Merge(Calm(InGap(149)),
          [godMode |-> TRUE, greenPillsEnabled |-> FALSE, bluePillsEnabled |-> FALSE])

\* The same session resumed after a pause of some seconds in the middle of
\* the first boss message.
BossResumed ==
    LET r == [BeforeBoss EXCEPT !.frameCount = @ + PIPE_SPAWN_RATE]
    IN Merge(r, [bossIntroTriggered |-> TRUE, bossIntroActive |-> TRUE,
                 bossIntroStartTime |-> CheckpointNow(r) - 8000,
                 bossMessageIndex |-> 0, bossCharIndex |-> 3,
                 bossLastCharTime |-> CheckpointNow(r) - 4900,
                 lastTauntScore |-> LEVEL_2_SCORE])

Checkpoints ==
    {InGap(59), InGap(149), InGap(179), Mega, Shot} \cup { WithPickup(k) : k \in PickupKinds }

InitFresh ==
    /\ gameState = "TITLE" /\ score = 0
    /\ stored = <<>> /\ highScores = <<>>
    /\ ref = FreshRefs
    /\ now = T0
    /\ hist = HistNone

InitCheckpoint(roots) ==
    \E r \in roots :
       /\ gameState = "PLAYING"
       /\ score = r.frameCount \div PIPE_SPAWN_RATE - 1
       /\ stored = <<40, 20>> /\ highScores = <<40, 20>>
       /\ ref = r
       /\ now = CheckpointNow(r)
       /\ hist = [HistNone EXCEPT
                     !.session = 1, !.base = r.frameCount \div PIPE_SPAWN_RATE - 1,
                     !.nextId = 2,
                     !.gone = r.frameCount \div PIPE_SPAWN_RATE - 1
                              - Cardinality({ k \in DOMAIN r.pipes : r.pipes[k].passed }),
                     !.bossStarts = IF r.bossIntroTriggered THEN 1 ELSE 0,
                     !.stormScores = { s \in {60, 120, 180} : s <= r.lastSandstormScore },
                     !.tauntScores = { s \in 1..r.lastTauntScore : s % TAUNT_EVERY = 0 },
                     !.spawned = [k \in PickupKinds |->
                        IF (k = "green" /\ r.pill # NULL) \/ (k = "blue" /\ r.bluePill # NULL)
                           \/ (k = "poster" /\ r.poster # NULL) THEN 1 ELSE 0]]

\* What construction leaves in the other variables: the render effect has
\* been set up with the cells as they are, and its first render() has
\* requested the first callback.
InitRest ==
    /\ menuScreen = "MAIN" /\ activeTab = "GRAPHICS" /\ keyTab = "GRAPHICS"
    /\ graphicsQuality = "HIGH"
    /\ eff = EffectSetup(ref)
    /\ dirty = FALSE
    /\ obs = ObsNone
    /\ ticks = 0 /\ inputs = 0 /\ menuKeys = 0
    /\ raf = [held |-> TRUE, others |-> 0]

Init == (InitFresh \/ InitCheckpoint(Checkpoints)) /\ InitRest

Next ==
    \/ Frame \/ EffectRerun
    \/ TitleKey \/ MenuTab \/ MenuArrow \/ MenuQuality \/ MenuEnter \/ MenuEscape
    \/ MenuClick \/ TabClick \/ Resize
    \/ Jump \/ TogglePause \/ ClickPaused \/ Restart \/ DevToggle

Spec == Init /\ [][Next]_vars

\* A session in progress: the menu is behind.
NextPlay ==
    \/ Frame \/ EffectRerun \/ Resize
    \/ Jump \/ TogglePause \/ ClickPaused \/ Restart \/ DevToggle

InitSession ==
    InitCheckpoint({Mega, Dry(Shot), Calm(InGap(149)), Calm(InGap(179))}) /\ InitRest
SpecSession == InitSession /\ [][NextPlay]_vars

InitStorm == InitCheckpoint({Dry(Mega), Dry(InGap(59)), Dry(InGap(179))}) /\ InitRest
SpecStorm == InitStorm /\ [][NextPlay]_vars

InitPickup ==
    InitCheckpoint({Dry(Mega)} \cup { Dry(WithPickup(k)) : k \in PickupKinds }) /\ InitRest
SpecPickup == InitPickup /\ [][NextPlay]_vars

\* From the title screen, and a session about to end.
InitPhase == (InitFresh \/ InitCheckpoint({Dry(Mega)})) /\ InitRest
SpecPhase == InitPhase /\ [][Next]_vars

\* ------------------------------------------------- the spawn draw, any canvas
\* The canvas heights handleResize can set without a window (lines 401-421):
\* the simulated phone, the default, and the explicit resolutions.
CanvasHeights == {375, 600, 720, 768, 1080}

\* Lengths here are in 1/60 px, which makes 50 * scale, 20 * scale and
\* PIPE_GAP * scale integers for scale = H / 600.  Math.random() is k / RandomSteps.
MinPipe60(H) == 5 * H
MaxPipe60(H) == 60 * H - 17 * H - 5 * H - 2 * H

\* Math.floor(Math.random() * (maxPipe - minPipe + 1)) + minPipe   (line 1793)
SpawnHeight60(H, k) ==
    60 * ((k * (MaxPipe60(H) - MinPipe60(H) + 60)) \div (60 * RandomSteps)) + MinPipe60(H)

\* One obstacle spawn on a canvas of height H with the random draw k.
PipeSpawnDraw ==
    /\ \E H \in CanvasHeights, k \in 0..(RandomSteps - 1) :
          obs' = [branch |-> "pipeSpawn", canvasHeight |-> H, draw |-> k,
                  topHeight60 |-> SpawnHeight60(H, k)]
    /\ UNCHANGED <<gameState, score, highScores, menuScreen, activeTab, stored, ref, eff,
                   dirty, now, raf, hist, ticks, inputs, menuKeys, graphicsQuality, keyTab>>

InitPipeSpawn == InitFresh /\ InitRest
SpecPipeSpawn == InitPipeSpawn /\ [][PipeSpawnDraw]_vars

InitPower ==
    InitCheckpoint({Dry(MegaPill), Dry(WithPickup("poster")), Dry(Mega)})
    /\ InitRest
SpecPower == InitPower /\ [][NextPlay \/ Hitch]_vars

InitBounds == InitCheckpoint({Calm(Falling), Calm(Rising), Calm(Grazing)}) /\ InitRest
SpecBounds == InitBounds /\ [][NextPlay]_vars

InitShots ==
    InitCheckpoint({Dry(Mega), Dry(Shot), Dry(Aiming), Calm(Ramming)}) /\ InitRest
SpecShots == InitShots /\ [][NextPlay]_vars

InitRain == InitCheckpoint({Early, InGap(59), Dry(Falling)}) /\ InitRest
SpecRain == InitRain /\ [][NextPlay]_vars

InitTaunt ==
    InitCheckpoint({Calm(InGap(9)), Calm(InGap(149)), Calm(BossFading), Calm(Falling)})
    /\ InitRest
SpecTaunt == InitTaunt /\ [][NextPlay]_vars

\* The frame loop of a session nobody touches, for as long as the boss intro
\* runs and MaxTicks frames beyond.
IntroFrame ==
    /\ ~dirty /\ gameState = "PLAYING"
    /\ ref.bossIntroActive \/ ticks < MaxTicks
    /\ \E c \in Pending(raf) :
       \E f \in Render(gameState, score, ref, hist, stored, highScores, eff, now + FRAME_MS) :
          Commit(f, eff, now + FRAME_MS, IF ref.bossIntroActive THEN ticks ELSE ticks + 1,
                 Fired(raf, c))

InitBossIntro == InitCheckpoint({BeforeBoss, BossResumed}) /\ InitRest
\* render() ends with requestAnimationFrame(render) (line 3074): while the
\* loop runs, the frame that moves the clock on keeps coming.  React runs a
\* due effect: the commit that leaves none pending keeps coming.
FrameDue ==
    /\ ~dirty /\ gameState = "PLAYING"
    /\ ref.bossIntroActive \/ ticks < MaxTicks
    /\ now' = now + FRAME_MS
RerunDue == dirty /\ dirty' = FALSE

SpecBossIntro ==
    /\ InitBossIntro /\ [][IntroFrame \/ EffectRerun]_vars
    /\ WF_now(FrameDue) /\ WF_dirty(RerunDue)

\* The frame loop of a session nobody touches, for as long as a timed
\* modifier is on and MaxTicks frames beyond; one frame may come late.
ModActive(r) == r.powerUpActive \/ r.bluePillActive \/ r.posterActive

ModFrame ==
    /\ ~dirty /\ gameState = "PLAYING"
    /\ ModActive(ref) \/ ticks < MaxTicks
    /\ \E dt \in {FRAME_MS, HITCH_MS}, c \in Pending(raf) :
         /\ dt # FRAME_MS => hist.stalls < MaxStalls
         /\ \E f \in Render(gameState, score, ref,
                            [hist EXCEPT !.stalls = IF dt # FRAME_MS THEN @ + 1 ELSE @],
                            stored, highScores, eff, now + dt) :
               Commit(f, eff, now + dt, IF ModActive(ref) THEN ticks ELSE ticks + 1,
                      Fired(raf, c))

ModFrameDue ==
    /\ ~dirty /\ gameState = "PLAYING"
    /\ ModActive(ref) \/ ticks < MaxTicks
    /\ now' = now + FRAME_MS

\* God mode on and the pill spawns switched off on the dev panel, a pickup
\* of each kind ahead.
InitModifiers ==
    /\ InitCheckpoint({ Merge(Calm(WithPickup(k)),
                              [godMode |-> TRUE, greenPillsEnabled |-> FALSE,
                               bluePillsEnabled |-> FALSE]) : k \in PickupKinds })
    /\ InitRest
SpecModifiers ==
    /\ InitModifiers /\ [][ModFrame \/ EffectRerun]_vars
    /\ WF_now(ModFrameDue) /\ WF_dirty(RerunDue)

\* From the title screen, a session about to end and one about to score.
InitLoop == (InitFresh \/ InitCheckpoint({Dry(Mega), Calm(InGap(31))})) /\ InitRest
SpecLoop == InitLoop /\ [][Next]_vars

\* The power shot on, two shots in the air, the older one about to leave
\* through the right edge three frames from the next obstacle spawn.
Volley ==
    LET r == Checkpoint(30, 147, 30000, 38000, 25)
    IN Merge(r, [powerUpActive |-> TRUE, powerUpEndTime |-> CheckpointNow(r) + 3000,
                 projectiles |-> <<[x |-> 39200, y |-> 39500, vy |-> 0],
                                   [x |-> 20000, y |-> 39500, vy |-> 0]>>])
InitVolley == InitCheckpoint({Calm(Volley), Dry(Mega)}) /\ InitRest
SpecVolley == InitVolley /\ [][NextPlay]_vars

\* A session about to reach the level boundary, with the audio element
\* reporting the end of its track.
InitMusic == InitCheckpoint({Calm(InGap(149)), Calm(Falling)}) /\ InitRest
SpecMusic == InitMusic /\ [][NextPlay \/ TrackEnded]_vars

\* A session in which render() may throw.
InitFaults == InitCheckpoint({Calm(Falling), Calm(InGap(31))}) /\ InitRest
SpecFaults == InitFaults /\ [][NextPlay \/ FaultyFrame]_vars

\* Pickups about to be due: the green and blue gates one tick short of being
\* reached, the mega pickup one tick short of its second spawn (frame 7202 of
\* the session, two obstacles on screen), and both gates long exceeded with
\* the two dev-panel toggles off.
PillsDue ==
    Merge(Checkpoint(30, 111, 30000, 38000, 25),
          [pillSpawnTimer |-> PILL_SPAWN_GATE - 1, bluePillSpawnTimer |-> BLUE_PILL_SPAWN_GATE - 1])
PosterDue ==
    Merge(Checkpoint(47, 0, 30000, 38000, 25),
          [pipes |-> <<[id |-> 0, x |-> CanvasW - PIPE_SPEED * (PIPE_SPAWN_RATE + 1),
                        topHeight |-> 30000, passed |-> TRUE, destroyed |-> FALSE],
                       [id |-> 1, x |-> CanvasW - PIPE_SPEED, topHeight |-> 30000,
                        passed |-> FALSE, destroyed |-> FALSE]>>,
           posterSpawnTimer |-> POSTER_SPAWN_INTERVAL - 1])
PillsOff ==
    Merge(Checkpoint(30, 111, 30000, 38000, 25),
          [pillSpawnTimer |-> PILL_SPAWN_GATE + 200, bluePillSpawnTimer |-> BLUE_PILL_SPAWN_GATE + 100,
           greenPillsEnabled |-> FALSE, bluePillsEnabled |-> FALSE])
InitSpawns ==
    InitCheckpoint({Calm(PillsDue), Calm(PosterDue), Calm(PillsOff), Calm(Falling)}) /\ InitRest
SpecSpawns == InitSpawns /\ [][NextPlay]_vars

\* Before the first and before the second sandstorm, acid rain falling.
InitWarning == InitCheckpoint({InGap(54), InGap(118), Dry(Falling)}) /\ InitRest
SpecWarning == InitWarning /\ [][NextPlay]_vars

\* The mega power-up on with fifty projectiles in the air, level with the gap
\* of the obstacle ahead, the auto-fire one frame from its next volley.
MegaFull ==
    LET r == Checkpoint(30, 111, 30000, 38000, 25)
    IN Merge(r, [posterActive |-> TRUE, posterEndTime |-> CheckpointNow(r) + 3000,
                 powerUpActive |-> TRUE, powerUpEndTime |-> CheckpointNow(r) + 3000,
                 posterAutoFireTimer |-> AUTO_FIRE_EVERY - 1, posterSpawnTimer |-> 250,
                 projectiles |-> [k \in 1..AUTO_FIRE_CAP |->
                                    [x |-> 11000 + 600 * k, y |-> 39500, vy |-> 0]]])
InitFire ==
    InitCheckpoint({Dry(Mega), Calm(Aiming), Calm(InGap(31)), Calm(MegaFull)}) /\ InitRest
SpecFire == InitFire /\ [][NextPlay]_vars

\* Sessions three frames from the next obstacle spawn: before the level
\* boundary, before the first sandstorm, and with the mega power-up on.
InitPipes ==
    InitCheckpoint({Calm(InGap(149)), Dry(InGap(59)), Calm(MegaPill), Calm(Falling)})
    /\ InitRest
SpecPipes == InitPipes /\ [][NextPlay]_vars

\* One of the two pill modifiers on and a pill of the other kind ahead, and
\* both on with one of them about to expire.
BothOn(powerLeft, debuffLeft) ==
    LET r == Checkpoint(30, 111, 30000, 38000, 25)
    IN Merge(r, [powerUpActive |-> TRUE, powerUpEndTime |-> CheckpointNow(r) + powerLeft,
                 bluePillActive |-> TRUE, bluePillEndTime |-> CheckpointNow(r) + debuffLeft])
InitPills ==
    InitCheckpoint({
        Merge(Calm(WithPickup("blue")),
              [powerUpActive |-> TRUE,
               powerUpEndTime |-> CheckpointNow(WithPickup("blue")) + 3000]),
        Merge(Calm(WithPickup("green")),
              [bluePillActive |-> TRUE,
               bluePillEndTime |-> CheckpointNow(WithPickup("green")) + 3000]),
        Calm(BothOn(20, 3000)), Calm(BothOn(3000, 20)), Calm(Falling)})
    /\ InitRest
SpecPills == InitPills /\ [][NextPlay]_vars

\* A raindrop above the avatar: while rain is falling, and one tick before
\* the score reaches the pre-sandstorm warning window.
RainAbove(sc, n, y) ==
    Merge(Checkpoint(sc, n, 30000, 38000, 25),
          [rainDrops |-> <<[NewRainDrop EXCEPT !.x = 9900, !.y = y]>>])
InitSplash ==
    InitCheckpoint({RainAbove(30, 111, 34000), RainAbove(54, 146, 33000), Dry(Falling)})
    /\ InitRest
SpecSplash == InitSplash /\ [][NextPlay]_vars

\* ------------------------------------- the obstacle array, any canvas width
\* The statements of a PLAYING tick that touch the obstacle array and the
\* green pill, from the start of a session, on the canvas widths that leave
\* scale = 1: the default 400 x 600 and the explicit resolution 800x600
\* (lines 416-421).  The avatar stays clear of obstacles and pills.  obs
\* holds the array with the ids of its obstacles in spawn order, the pill,
\* and for the pill spawned in the tick the id of its lastPipe (anchor) next
\* to the id of the obstacle spawned last (newest).
CanvasWidths == {40000, 80000}

\* p.x -= scaledPipeSpeed (line 1800); if (p.x < -60 * scale) swap-remove
\* (lines 1968-1971), i counts down from the last index.
RECURSIVE ShiftLoop(_, _)
ShiftLoop(arr, i) ==
    IF i = 0 THEN arr
    ELSE LET p == [arr[i] EXCEPT !.x = @ - PIPE_SPEED]
             kept == [arr EXCEPT ![i] = p]
         IN ShiftLoop(IF p.x < PIPE_REMOVE_X THEN SwapRemove(kept, i) ELSE kept, i - 1)

\* startGame() on a canvas of width W.
ObstaclesStart ==
    /\ obs.branch # "obstacles"
    /\ \E W \in CanvasWidths :
          obs' = [branch |-> "obstacles", canvasWidth |-> W, frameCount |-> 0, pipes |-> <<>>,
                  nextId |-> 1, pill |-> NULL, pillSpawnTimer |-> 0, anchor |-> 0, newest |-> 0]
    /\ UNCHANGED <<gameState, score, highScores, menuScreen, activeTab, stored, ref, eff,
                   dirty, now, raf, hist, ticks, inputs, menuKeys, graphicsQuality, keyTab>>

\* === PILL === spawn and move (lines 1418-1427, 1486-1489), then
\* === PIPES === spawn, move and removal (lines 1789-1800, 1968-1971).
ObstaclesTick ==
    /\ obs.branch = "obstacles" /\ obs.frameCount < MaxFrames
    /\ \E draw \in BOOLEAN, h \in PipeHeights :
         LET timer == obs.pillSpawnTimer + 1
             spawn == /\ obs.pill = NULL /\ timer > PILL_SPAWN_GATE /\ draw
                      /\ Len(obs.pipes) > 0
             lastPipe == obs.pipes[Len(obs.pipes)]
             pill1 == IF spawn
                      THEN [x |-> obs.canvasWidth + 2000, y |-> GapCenter(lastPipe) - 1000]
                      ELSE obs.pill
             pill2 == IF pill1 = NULL THEN NULL
                      ELSE IF pill1.x - Pct(PIPE_SPEED, 80) < PICKUP_GONE_X THEN NULL
                      ELSE [pill1 EXCEPT !.x = @ - Pct(PIPE_SPEED, 80)]
             fc == obs.frameCount + 1
             made == fc % PIPE_SPAWN_RATE = 0
             pipes1 == IF made
                       THEN Append(obs.pipes, [id |-> obs.nextId, x |-> obs.canvasWidth,
                                               topHeight |-> h])
                       ELSE obs.pipes
         IN /\ ~made => h = MIN_PIPE
            /\ obs' = [obs EXCEPT
                         !.frameCount = fc,
                         !.pillSpawnTimer = IF spawn THEN 0 ELSE timer,
                         !.pill = pill2,
                         !.anchor = IF spawn THEN lastPipe.id ELSE 0,
                         !.newest = obs.nextId - 1,
                         !.pipes = ShiftLoop(pipes1, Len(pipes1)),
                         !.nextId = IF made THEN @ + 1 ELSE @]
    /\ UNCHANGED <<gameState, score, highScores, menuScreen, activeTab, stored, ref, eff,
                   dirty, now, raf, hist, ticks, inputs, menuKeys, graphicsQuality, keyTab>>

InitObstacles == InitFresh /\ InitRest
SpecObstacles == InitObstacles /\ [][ObstaclesStart \/ ObstaclesTick]_vars

\* An obstacle at the left edge, passed long ago and about to be removed,
\* the next one on its way.
Leaving ==
    Merge(Checkpoint(30, 33, 30000, 38000, 25),
          [pipes |-> <<[id |-> 0, x |-> PIPE_REMOVE_X, topHeight |-> 30000,
                        passed |-> TRUE, destroyed |-> FALSE],
                       [id |-> 1, x |-> PIPE_REMOVE_X + PIPE_SPEED * PIPE_SPAWN_RATE,
                        topHeight |-> 30000, passed |-> FALSE, destroyed |-> FALSE]>>])
InitEdge == InitCheckpoint({Calm(Leaving), Calm(InGap(31)), Calm(Falling)}) /\ InitRest
SpecEdge == InitEdge /\ [][NextPlay]_vars

\* ------------------------------------------------- the menu, with the pointer
\* The START phase as the title key leaves it, and with the options screen
\* opened from it.
InitMenu ==
    /\ gameState = "START" /\ score = 0
    /\ stored = <<>> /\ highScores = <<>>
    /\ ref = FreshRefs
    /\ now = T0
    /\ hist = HistNone
    /\ menuScreen \in {"MAIN", "OPTIONS"}
    /\ activeTab = "GRAPHICS" /\ keyTab = "GRAPHICS"
    /\ graphicsQuality = "HIGH"
    /\ eff = EffectSetup(ref)
    /\ dirty = FALSE
    /\ obs = ObsNone
    /\ ticks = 0 /\ inputs = 0 /\ menuKeys = 0
    /\ raf = [held |-> TRUE, others |-> 0]

NextMenu ==
    \/ Frame \/ EffectRerun
    \/ MenuTab \/ MenuArrow \/ MenuQuality \/ MenuEnter \/ MenuEscape
    \/ MouseMove \/ MouseLeave \/ HoverClick \/ TabClick

SpecMenu == InitMenu /\ [][NextMenu]_vars

\* ------------------------------------------------- the high-score store alone
Scores == {30, 50, 80}

RECURSIVE SeqsUpTo(_, _)
SeqsUpTo(S, n) ==
    IF n = 0 THEN {<<>>}
    ELSE LET shorter == SeqsUpTo(S, n - 1)
         IN shorter \cup { Append(q, v) : q \in shorter, v \in S }

\* localStorage holds any short list (loadHighScores, lines 46-51).
InitStore ==
    /\ stored \in SeqsUpTo(Scores, MaxStoredLen) /\ highScores = stored
    /\ gameState = "TITLE" /\ score = 0 /\ ref = FreshRefs /\ now = T0 /\ hist = HistNone
    /\ InitRest

\* const updated = saveHighScore(score); setHighScores(updated)  (lines 2938-2939)
SubmitScore ==
    /\ \E s \in Scores :
          /\ stored' = saveHighScore(stored, s)
          /\ obs' = [branch |-> "saveHighScore", before |-> stored, newScore |-> s]
    /\ highScores' = stored'
    /\ UNCHANGED <<gameState, score, menuScreen, activeTab, ref, eff, dirty, now, raf, hist,
                   ticks, inputs, menuKeys, graphicsQuality, keyTab>>

SpecStore == InitStore /\ [][SubmitScore]_vars

\* ------------------------------------------------------------------ claims
Range(s) == { s[k] : k \in DOMAIN s }

\* C1 as stated: after a PLAYING tick every obstacle whose trailing edge is
\* left of the avatar's leading edge (scaledBirdX + scaledBirdSize) has been
\* scored.
C1_ScoredAtLeadingEdge ==
    obs.branch = "PLAYING" =>
        \A k \in DOMAIN ref.pipes :
            ref.pipes[k].x + PIPE_WIDTH < scaledBirdX + obs.birdSize => ref.pipes[k].passed

\* C1 amended: an obstacle is scored, by exactly 1 and exactly once, on the
\* first PLAYING tick in which its trailing edge is left of the avatar's
\* left edge scaledBirdX, destroyed or not; the score is the number of
\* obstacles scored in the session and nothing else changes it.
C1_ScoredOncePerObstacle ==
    /\ score = hist.base + Len(hist.scoredIds)
    /\ \A i, j \in DOMAIN hist.scoredIds : hist.scoredIds[i] = hist.scoredIds[j] => i = j
    /\ \A k \in DOMAIN ref.pipes :
          LET p == ref.pipes[k]
          IN /\ p.passed <=> p.x + PIPE_WIDTH < scaledBirdX
             /\ p.passed <=> p.id \in Range(hist.scoredIds)
    /\ obs.branch = "PLAYING" => obs.scored \subseteq Range(hist.scoredIds)

\* C1 witness: a destroyed obstacle has been scored, and a later PLAYING tick
\* has left the score alone.
C1_Witness ==
    /\ obs.branch = "PLAYING" /\ obs.scored = {}
    /\ score = hist.base + 1
    /\ \E k \in DOMAIN ref.pipes :
          ref.pipes[k].destroyed /\ ref.pipes[k].passed
          /\ ref.pipes[k].id \in Range(hist.scoredIds)


SavesOf(s) == { k \in DOMAIN hist.saves : hist.saves[k].session = s }

\* C2: the final score of a session is committed to the high-score store
\* exactly once: once the GAME_OVER block has run there is one save for the
\* session, it carries the session's score, further GAME_OVER frames and
\* frame-loop restarts add none, and only a reset (a new session) re-arms it.
C2_SavedOncePerSession ==
    /\ \A s \in 1..MaxSessions : Cardinality(SavesOf(s)) <= 1
    /\ ref.scoreSaved <=> SavesOf(hist.session) # {}
    /\ ref.scoreSaved => gameState = "GAME_OVER"
    /\ gameState = "GAME_OVER" /\ ~dirty =>
          \E k \in SavesOf(hist.session) : hist.saves[k].score = score
    /\ obs.saveCalled => obs.branch = "GAME_OVER" /\ score \in Range(stored)

\* C2 witness: a GAME_OVER frame drawn after the save, which saved nothing.
C2_Witness ==
    /\ gameState = "GAME_OVER" /\ obs.branch = "GAME_OVER"
    /\ ~obs.saveCalled /\ ref.scoreSaved
    /\ Len(hist.saves) = 1

SimCells ==
    {"birdY", "birdVelocity", "pipes", "pill", "bluePill", "poster", "projectiles",
     "rainDrops", "explosionParticles", "splashParticles", "sandParticles",
     "pillPickupParticles", "powerUpActive", "powerUpEndTime", "bluePillActive",
     "bluePillEndTime", "posterActive", "posterEndTime", "sandstormActiveRef",
     "sandstormEndTime", "lastSandstormScore", "currentTaunt", "tauntEndTime",
     "lastTauntScore", "bossIntroActive", "bossIntroTriggered", "bossIntroStartTime",
     "bossMessageIndex", "bossCharIndex", "frameCount", "scoreSaved"}

FirstSession == Merge(resetGame(FreshRefs), [gameStartTime |-> now])

\* C3: right after a restart the simulation state equals that of a fresh
\* first session at its start: avatar at the start position with zero
\* velocity, score 0, every entity collection empty, every modifier, hazard,
\* taunt and boss-intro flag and timer cleared.
C3_RestartEqualsFresh ==
    obs.branch = "startGame" =>
        /\ score = 0
        /\ \A c \in SimCells : ref[c] = FirstSession[c]

\* C4: the boss intro starts exactly once per session, on the first PLAYING
\* tick that observes a score of at least LEVEL_2_SCORE, never again in that
\* session even after the intro has finished, and a reset re-arms it.
C4_BossIntroOncePerSession ==
    /\ hist.bossStarts <= 1
    /\ ref.bossIntroTriggered <=> hist.bossStarts = 1
    /\ ref.bossIntroTriggered => score >= LEVEL_2_SCORE
    /\ ref.bossIntroActive => ref.bossIntroTriggered
    /\ obs.branch = "PLAYING" =>
          /\ obs.score >= LEVEL_2_SCORE => ref.bossIntroTriggered
          /\ obs.bossStarted => obs.score >= LEVEL_2_SCORE /\ ref.bossIntroStartTime = now
    /\ obs.branch = "startGame" => ~ref.bossIntroTriggered /\ ~ref.bossIntroActive

\* C4 witness: the session crossed LEVEL_2_SCORE, the intro started, and a
\* later PLAYING tick at that score did not start it again.
C4_Witness ==
    /\ hist.base < LEVEL_2_SCORE /\ hist.bossStarts = 1
    /\ obs.branch = "PLAYING" /\ obs.score >= LEVEL_2_SCORE /\ ~obs.bossStarted
    /\ ref.bossIntroStartTime < now

\* C4 witness for the intro having finished: no restart once it is over.
C4_FinishedWitness ==
    /\ hist.base >= LEVEL_2_SCORE /\ ref.bossIntroTriggered /\ ~ref.bossIntroActive
    /\ obs.branch = "PLAYING" /\ ~obs.bossStarted /\ score > hist.base


StormDue(sc, seen) == sc > 0 /\ sc % SANDSTORM_TRIGGER_SCORE = 0 /\ sc \notin seen

StormDeadlineOk ==
    obs.stormStarted =>
        /\ obs.stormDeadline = now + (IF obs.score >= LEVEL_2_SCORE
                                      THEN SANDSTORM_DURATION_LVL2
                                      ELSE SANDSTORM_DURATION_BASE)
        /\ ref.sandstormEndTime = obs.stormDeadline
        /\ ref.sandstormActiveRef

\* C5 as stated: a PLAYING tick starts a sandstorm if and only if the score
\* is positive, a multiple of 60, and has not yet started a storm in this
\* session; the deadline is 17000 ms ahead from score 150 on, else 12000 ms.
C5_StormIffScoreDue ==
    obs.branch = "PLAYING" =>
        /\ obs.stormStarted <=> StormDue(obs.score, obs.stormSeen)
        /\ StormDeadlineOk

\* C5 amended: a PLAYING tick starts a sandstorm if and only if the
\* sandstorm toggle is enabled in that tick and the score is positive, a
\* multiple of 60, and has not yet started a storm in this session; the
\* deadline is 17000 ms ahead from score 150 on, else 12000 ms.
C5_StormIffEnabledAndScoreDue ==
    obs.branch = "PLAYING" =>
        /\ obs.stormStarted <=> (obs.stormEnabled /\ StormDue(obs.score, obs.stormSeen))
        /\ StormDeadlineOk

\* C5 witness: a storm started at score 180 with the long deadline.
C5_Witness ==
    /\ obs.branch = "PLAYING" /\ obs.stormStarted /\ obs.score = 180
    /\ ref.sandstormEndTime = now + SANDSTORM_DURATION_LVL2

\* C5 witnesses: a storm started at score 60 with the short deadline; a tick
\* that stayed at a score which had started a storm; a tick at a due score
\* with the toggle off.
C5_BaseWitness ==
    /\ obs.branch = "PLAYING" /\ obs.stormStarted /\ obs.score = 60
    /\ ref.sandstormEndTime = now + SANDSTORM_DURATION_BASE

C5_StayWitness ==
    /\ obs.branch = "PLAYING" /\ ~obs.stormStarted /\ obs.score \in obs.stormSeen
    /\ obs.stormEnabled

C5_ToggleWitness ==
    /\ obs.branch = "PLAYING" /\ ~obs.stormStarted /\ ~obs.stormEnabled
    /\ StormDue(obs.score, obs.stormSeen)


PhaseEdges ==
    { <<"TITLE", "START">>, <<"START", "PLAYING">>, <<"PLAYING", "PAUSED">>,
      <<"PAUSED", "PLAYING">>, <<"PLAYING", "GAME_OVER">>, <<"GAME_OVER", "PLAYING">> }

PhaseStep ==
    gameState' # gameState =>
        /\ <<gameState, gameState'>> \in PhaseEdges
        /\ gameState = "TITLE" => menuKeys' = menuKeys + 1 /\ UNCHANGED <<ref, score>>
        /\ gameState = "START" =>
              /\ menuScreen = "MAIN"
              /\ ItemAt(MENU_ITEMS_MAIN, ref'.selectedMenuItem) = "START"
              /\ obs'.branch = "startGame"
        /\ gameState' = "PAUSED" => UNCHANGED <<ref, score, ticks>>
        /\ gameState = "PAUSED" => UNCHANGED <<score, ticks>> /\ inputs' = inputs + 1
        /\ gameState' = "GAME_OVER" => obs'.branch = "PLAYING" /\ inputs' = inputs
        /\ gameState = "GAME_OVER" =>
              obs'.branch = "startGame" /\ score' = 0 /\ hist'.session = hist.session + 1

\* C6: the phase changes only along TITLE -> START (a key), START -> PLAYING
\* (START selected on the main menu), PLAYING <-> PAUSED (input), PLAYING ->
\* GAME_OVER (in a tick), GAME_OVER -> PLAYING (through a reset); GAME_OVER
\* and PAUSED are entered only from PLAYING and TITLE is never re-entered.
C6_PhaseTransitions == [][PhaseStep]_vars

\* C6 witness: a run that went PLAYING -> GAME_OVER -> PLAYING -> PAUSED.
C6_Witness == gameState = "PAUSED" /\ hist.session = 2

\* C6 witness: a run from TITLE through the menu into its first session.
C6_MenuWitness ==
    /\ gameState = "PLAYING" /\ hist.session = 1 /\ menuKeys > 0 /\ stored = <<>>

SimOf(r) == [c \in SimCells \cup {"pillSpawnTimer", "bluePillSpawnTimer",
                                  "posterSpawnTimer", "posterAutoFireTimer"} |-> r[c]]

PausedStep ==
    /\ gameState = "PAUSED" /\ gameState' = "PAUSED" =>
          /\ UNCHANGED <<ref, score>>
          /\ obs' # obs => obs'.branch = "PAUSED"
    /\ gameState = "PAUSED" /\ gameState' # "PAUSED" =>
          /\ gameState' = "PLAYING" /\ score' = score
          /\ SimOf(ref') = SimOf(ref)

\* C7: while PAUSED, frame ticks (which keep drawing the PAUSED block) leave
\* the avatar, the obstacle, pickup and projectile collections, the spawn
\* counters, the score and every modifier, hazard and narrative flag
\* unchanged, and resuming enters PLAYING with that same state.
C7_PausedFreezes == [][PausedStep]_vars

\* C7 witness: frames have been drawn while PAUSED in the middle of a session.
C7_Witness ==
    /\ gameState = "PAUSED" /\ obs.branch = "PAUSED" /\ ~dirty
    /\ ticks >= 3 /\ ref.pipes # <<>> /\ ref.birdVelocity # 0

\* C7 witness: the session resumed and went on simulating.
C7_ResumeWitness ==
    /\ gameState = "PLAYING" /\ obs.branch = "PLAYING" /\ inputs = 2
    /\ hist.session = 1 /\ ticks >= 3 /\ ref.scoreSaved = FALSE


PickupCell(k) ==
    CASE k = "green" -> ref.pill [] k = "blue" -> ref.bluePill [] OTHER -> ref.poster

PickupApplied(k) ==
    CASE k = "green" -> ref.powerUpActive /\ ref.powerUpEndTime >= now + POWER_DURATION
      [] k = "blue" -> ref.bluePillActive /\ ref.bluePillEndTime = now + BLUE_PILL_DURATION
      [] OTHER -> /\ ref.posterActive /\ ref.posterEndTime = now + POSTER_DURATION
                  /\ ref.powerUpActive /\ ref.powerUpEndTime = now + POSTER_DURATION

\* C8: in a PLAYING tick a pickup's effect is applied if and only if the
\* avatar's box overlaps the live pickup's box (the half extents the code
\* gives it around its centre) in that tick; the pickup is removed in the same
\* tick and its effect is set then, so no instance is collected twice.
C8_CollectedIffOverlap ==
    \A k \in PickupKinds :
        /\ obs.branch = "PLAYING" =>
              /\ obs.pick[k].applied <=> (obs.pick[k].tested /\ obs.pick[k].overlap)
              /\ obs.pick[k].applied => PickupCell(k) = NULL /\ PickupApplied(k)
        /\ hist.collected[k] + (IF PickupCell(k) = NULL THEN 0 ELSE 1) <= hist.spawned[k]

\* C8 witness: the debuff pill was collected in this tick and is gone.
C8_Witness ==
    /\ obs.branch = "PLAYING" /\ obs.pick["blue"].applied /\ obs.pick["blue"].overlap
    /\ ref.bluePill = NULL /\ ref.bluePillActive /\ hist.collected["blue"] = 1

\* C8 witnesses: the other two pickups collected; a live pickup not touched.
C8_GreenWitness ==
    obs.branch = "PLAYING" /\ obs.pick["green"].applied /\ ref.pill = NULL

C8_PosterWitness ==
    obs.branch = "PLAYING" /\ obs.pick["poster"].applied /\ ref.poster = NULL

C8_MissWitness ==
    /\ obs.branch = "PLAYING" /\ obs.pick["green"].tested /\ ~obs.pick["green"].overlap
    /\ ref.pill # NULL /\ ~ref.powerUpActive

ModifierPct(on, pct) == IF on THEN pct ELSE 100

\* C9: in every PLAYING tick the avatar size used is base x 1.5 while the
\* debuff modifier is active x 1.25 while the mega modifier is active
\* (modifiers that did not change during the tick).
C9_SizeFollowsModifiers ==
    obs.branch = "PLAYING" /\ obs.blue0 = ref.bluePillActive
                           /\ obs.poster0 = ref.posterActive =>
        obs.birdSize = Pct(Pct(BIRD_BASE_SIZE, ModifierPct(ref.bluePillActive, BLUE_PILL_SIZE_MULT)),
                           ModifierPct(ref.posterActive, POSTER_SIZE_MULT))

\* C10: in every PLAYING tick the world speed used is base x 1.4 while the
\* debuff modifier is active x 1.4 while a sandstorm is active (modifier and
\* storm that did not change during the tick).
C10_SpeedFollowsModifiers ==
    obs.branch = "PLAYING" /\ obs.blue0 = ref.bluePillActive
                           /\ obs.sand0 = ref.sandstormActiveRef =>
        obs.pipeSpeed = Pct(Pct(PIPE_SPEED, ModifierPct(ref.bluePillActive, BLUE_PILL_SPEED_MULT)),
                            ModifierPct(ref.sandstormActiveRef, BLUE_PILL_SPEED_MULT))


\* C11: every spawned obstacle, for every random draw and canvas height H,
\* has minMargin <= gapTop and gapTop + gapSize <= H - minMargin -
\* groundHeight (minMargin = 50 * scale, gapSize = 170 * scale, groundHeight
\* = 20 * scale, scale = H / 600; all in 1/60 px here).
C11_GapWithinBounds ==
    obs.branch = "pipeSpawn" =>
        LET H == obs.canvasHeight
        IN /\ 5 * H <= obs.topHeight60
           /\ obs.topHeight60 + 17 * H <= 60 * H - 5 * H - 2 * H


CountOf(list, v) == Cardinality({ i \in DOMAIN list : list[i] = v })

\* C12: submitting a score returns and persists the stored scores plus the
\* new one, sorted in descending order with ties kept, cut to the 10
\* largest; [50, 80, 30] then 80 gives [80, 80, 50, 30].
C12_SortedTopTen ==
    obs.branch = "saveHighScore" =>
        LET all == Append(obs.before, obs.newScore)
        IN /\ highScores = stored
           /\ Len(stored) = Min2(Len(all), MAX_HIGH_SCORES)
           /\ \A i, j \in DOMAIN stored : i < j => stored[i] >= stored[j]
           /\ \A v \in Scores :
                 /\ CountOf(stored, v) <= CountOf(all, v)
                 /\ CountOf(stored, v) < CountOf(all, v) =>
                       \A i \in DOMAIN stored : stored[i] >= v
           /\ obs.before = <<50, 80, 30>> /\ obs.newScore = 80 => stored = <<80, 80, 50, 30>>

\* C12 witness: the list [50, 80, 30] received 80.
C12_Witness ==
    /\ obs.branch = "saveHighScore" /\ obs.before = <<50, 80, 30>> /\ obs.newScore = 80
    /\ stored = <<80, 80, 50, 30>>

\* C12 witness: a full list received a score larger than its smallest entry.
C12_FullWitness ==
    /\ obs.branch = "saveHighScore" /\ Len(obs.before) = MAX_HIGH_SCORES
    /\ obs.newScore > obs.before[MAX_HIGH_SCORES] /\ Len(stored) = MAX_HIGH_SCORES


Systems(names) == { i \in DOMAIN obs.order : obs.order[i] \in names }
MoveBeforeCollision ==
    \A i \in Systems({"collision"}) : i > 1 /\ obs.order[i - 1] = "move"

C14_MegaImpliesPowerShot == ref.posterActive => ref.powerUpActive


LeftPlayArea(o) == o.physY < 0 \/ o.physY + o.birdSize >= GROUND_Y_GAME
Bounced(o) ==
    IF o.physY < 0 THEN o.endY = 0 /\ o.endV = Abs(o.physV) \div 2
    ELSE o.endY = GROUND_Y_GAME - o.birdSize /\ o.endV = 0 - (Abs(o.physV) \div 2)

\* C15: when the avatar leaves the play area in a PLAYING tick (top < 0 or
\* bottom >= ground line), the run ends if god mode is off; if it is on the
\* avatar is clamped to the boundary, its velocity reversed and halved and
\* the run continues.  No frame with god mode on ends the run.
C15_BoundsEndOrBounce ==
    [][ /\ obs'.branch = "PLAYING" /\ LeftPlayArea(obs') =>
             IF obs'.god THEN Bounced(obs') /\ obs'.ended = {}
             ELSE "bounds" \in obs'.ended
        /\ gameState # "GAME_OVER" /\ gameState' = "GAME_OVER" =>
             ~ref.godMode /\ obs'.ended # {} ]_vars


\* The obstacles of a shot that are not destroyed and whose top or bottom
\* segment the projectile overlaps, and those whose gap it is in.
InSegment(s) ==
    { j \in DOMAIN s.pipes :
        /\ ~s.pipes[j].destroyed
        /\ s.proj.x + PROJ_LEN > s.pipes[j].x /\ s.proj.x < s.pipes[j].x + PIPE_WIDTH
        /\ (s.proj.y < s.pipes[j].topHeight \/ s.proj.y > s.pipes[j].topHeight + PIPE_GAP) }
InGapOf(s) ==
    { j \in DOMAIN s.pipes :
        /\ ~s.pipes[j].destroyed
        /\ s.proj.x + PROJ_LEN > s.pipes[j].x /\ s.proj.x < s.pipes[j].x + PIPE_WIDTH
        /\ s.proj.y >= s.pipes[j].topHeight /\ s.proj.y <= s.pipes[j].topHeight + PIPE_GAP }

\* C17: a projectile that, when its turn comes in a tick, overlaps the top or
\* bottom segment of an obstacle that is not destroyed marks that obstacle
\* destroyed in the same tick, is removed and spawns at least one explosion
\* particle; a projectile that overlaps none (it is in the gap, or the
\* obstacle is destroyed) changes no obstacle, spawns nothing and stays.
C17_ShotDestroysSegment ==
    obs.branch = "PLAYING" =>
        \A k \in DOMAIN obs.shots :
            LET s == obs.shots[k]
            IN IF InSegment(s) # {}
               THEN /\ \E j \in InSegment(s) :
                          /\ s.pipesAfter = [s.pipes EXCEPT ![j].destroyed = TRUE]
                          /\ \A q \in Range(ref.pipes) : q.id = s.pipes[j].id => q.destroyed
                    /\ s.proj \notin Range(s.projectiles)
                    /\ s.sparks >= 1
               ELSE /\ s.pipesAfter = s.pipes
                    /\ s.sparks = 0
                    /\ s.proj.x <= CanvasW + PROJ_MARGIN => s.proj \in Range(s.projectiles)

\* C17 witness: a projectile has destroyed an obstacle.
C17_Witness ==
    /\ obs.branch = "PLAYING"
    /\ \E k \in DOMAIN obs.shots : InSegment(obs.shots[k]) # {} /\ obs.shots[k].sparks >= 1

\* C17 witness: a projectile is in the gap of an obstacle that is not destroyed.
C17_GapWitness ==
    /\ obs.branch = "PLAYING"
    /\ \E k \in DOMAIN obs.shots :
          /\ InGapOf(obs.shots[k]) # {}
          /\ obs.shots[k].proj \in Range(obs.shots[k].projectiles)


PlayingStep == obs'.branch = "PLAYING" /\ ref'.frameCount = ref.frameCount + 1
After(p) == { q \in Range(ref'.pipes) : q.id = p.id }
\* The avatar's box overlaps the top or bottom segment of obstacle p, moved.
Touches(p) ==
    LET x == p.x - obs'.pipeSpeed
    IN /\ scaledBirdX < x + PIPE_WIDTH /\ scaledBirdX + obs'.birdSize > x
       /\ (ref'.birdY < p.topHeight
           \/ ref'.birdY + obs'.birdSize > p.topHeight + PIPE_GAP)
ShotNow(p) ==
    \E k \in DOMAIN obs'.shots :
        \E q \in Range(obs'.shots[k].pipesAfter) : q.id = p.id /\ q.destroyed
Intact(p) == ~p.destroyed /\ ~ShotNow(p)
OnDebris(s) ==
    /\ InSegment(s) = {}
    /\ \E j \in DOMAIN s.pipes :
          /\ s.pipes[j].destroyed
          /\ s.proj.x + PROJ_LEN > s.pipes[j].x /\ s.proj.x < s.pipes[j].x + PIPE_WIDTH
          /\ (s.proj.y < s.pipes[j].topHeight
              \/ s.proj.y > s.pipes[j].topHeight + PIPE_GAP)

\* C16: in a PLAYING tick the avatar's box overlapping the top or bottom
\* segment of an obstacle that is not destroyed ends the run when god mode is
\* off, and with god mode on marks the obstacle destroyed while the run
\* continues.  A destroyed obstacle never ends the run and no projectile hits
\* it, but it stays in the collection, keeps moving and is scored like any
\* other until it has left the left edge (x < -60 * scale).
C16_ObstacleCollision ==
    [][ PlayingStep =>
          LET touched == { p \in Range(ref.pipes) : Touches(p) /\ Intact(p) }
          IN /\ IF obs'.god
                THEN /\ "obstacle" \notin obs'.ended /\ gameState' = gameState
                     /\ \A p \in touched : \A q \in After(p) : q.destroyed
                ELSE /\ "obstacle" \in obs'.ended <=> touched # {}
                     /\ touched # {} => gameState' = "GAME_OVER"
                     /\ gameState' = "GAME_OVER" => obs'.ended # {}
             /\ \A p \in Range(ref.pipes) :
                   LET x == p.x - obs'.pipeSpeed
                   IN /\ IF x < PIPE_REMOVE_X THEN After(p) = {}
                         ELSE \E q \in After(p) :
                                 /\ After(p) = {q}
                                 /\ q.x = x /\ q.topHeight = p.topHeight
                                 /\ p.destroyed => q.destroyed
                                 /\ q.passed <=> (p.passed \/ x + PIPE_WIDTH < scaledBirdX)
                      /\ x + PIPE_WIDTH < scaledBirdX /\ ~p.passed => p.id \in obs'.scored
             /\ \A k \in DOMAIN obs'.shots :
                   LET s == obs'.shots[k]
                   IN OnDebris(s) =>
                         /\ s.pipesAfter = s.pipes /\ s.sparks = 0
                         /\ s.proj.x <= CanvasW + PROJ_MARGIN =>
                               s.proj \in Range(s.projectiles) ]_vars

\* C16 witness: with god mode on the avatar has destroyed an obstacle by
\* touching it, and the run goes on.
C16_Witness ==
    /\ obs.branch = "PLAYING" /\ obs.god /\ gameState = "PLAYING" /\ obs.shots = <<>>
    /\ \E q \in Range(ref.pipes) :
          /\ q.destroyed
          /\ scaledBirdX < q.x + PIPE_WIDTH /\ scaledBirdX + obs.birdSize > q.x
          /\ obs.endY < q.topHeight
          /\ Len(ref.explosionParticles) > 0

\* C16 witness: with god mode off the avatar has touched an obstacle and the
\* run is over.
C16_EndWitness ==
    /\ obs.branch = "PLAYING" /\ ~obs.god /\ gameState = "GAME_OVER"
    /\ "obstacle" \in obs.ended

\* C16 witness: with god mode off the avatar is inside a destroyed obstacle
\* and the run goes on.
C16_DebrisWitness ==
    /\ obs.branch = "PLAYING" /\ ~obs.god /\ gameState = "PLAYING" /\ ~dirty
    /\ \E q \in Range(ref.pipes) :
          /\ q.destroyed
          /\ scaledBirdX < q.x + PIPE_WIDTH /\ scaledBirdX + obs.birdSize > q.x
          /\ (obs.endY < q.topHeight \/ obs.endY + obs.birdSize > q.topHeight + PIPE_GAP)

\* C16 witness: a projectile has flown through a destroyed obstacle.
C16_ShotWitness ==
    /\ obs.branch = "PLAYING"
    /\ \E k \in DOMAIN obs.shots :
          /\ \E j \in DOMAIN obs.shots[k].pipes :
                /\ obs.shots[k].pipes[j].destroyed
                /\ obs.shots[k].proj.x + PROJ_LEN > obs.shots[k].pipes[j].x
                /\ obs.shots[k].proj.x < obs.shots[k].pipes[j].x + PIPE_WIDTH
                /\ obs.shots[k].proj.y > obs.shots[k].pipes[j].topHeight + PIPE_GAP
          /\ obs.shots[k].proj \in Range(obs.shots[k].projectiles)


\* The pre-sandstorm warning window of a frame: the sandstorm toggle on, the
\* score in [55, 60) and no sandstorm active.
WarningWindow(o) ==
    /\ o.stormEnabled /\ ~o.sand0
    /\ o.score >= SANDSTORM_TRIGGER_SCORE - 5 /\ o.score < SANDSTORM_TRIGGER_SCORE

C18_DelayWitness ==
    /\ obs.branch = "PLAYING" /\ ~obs.rain /\ obs.rainEnabled /\ ~obs.sand0
    /\ ~WarningWindow(obs) /\ now - ref.gameStartTime <= ACID_RAIN_DELAY
C18_ToggleWitness ==
    /\ obs.branch = "PLAYING" /\ ~obs.rain /\ ~obs.rainEnabled
    /\ now - ref.gameStartTime > ACID_RAIN_DELAY /\ ~obs.sand0 /\ ~WarningWindow(obs)
C18_WindowWitness ==
    /\ obs.branch = "PLAYING" /\ ~obs.rain /\ obs.rainEnabled /\ WarningWindow(obs)
    /\ now - ref.gameStartTime > ACID_RAIN_DELAY
C18_StormWitness ==
    /\ obs.branch = "PLAYING" /\ ~obs.rain /\ obs.rainEnabled /\ obs.sand0
    /\ now - ref.gameStartTime > ACID_RAIN_DELAY


C19_BossWitness ==
    /\ obs.branch = "PLAYING" /\ ~obs.tauntStarted /\ ~obs.tauntShown
    /\ ref.bossIntroActive /\ ~obs.bossStarted
    /\ ref.currentTaunt # NULL /\ now < ref.tauntEndTime /\ ref.lastTauntScore = 150

\* C19 witness: the score has reached 160 while the boss intro is active, and
\* no taunt starts.
C19_HeldWitness ==
    /\ obs.branch = "PLAYING" /\ obs.score = 160 /\ ~obs.tauntStarted
    /\ ref.bossIntroActive /\ ref.lastTauntScore = 150

\* C19 witness: the taunt of score 160 starts once the boss intro is over.
C19_LateWitness ==
    /\ obs.branch = "PLAYING" /\ obs.score = 160 /\ obs.tauntStarted
    /\ ~ref.bossIntroActive /\ ref.bossIntroTriggered


BossLen(r) == BOSS_MESSAGES[r.bossMessageIndex + 1]
BossTypes(r) == r.bossIntroActive /\ r.bossMessageIndex < Len(BOSS_MESSAGES)

BossIntroStep ==
    PlayingStep =>
       \* glitch: nothing is revealed during the first 3000 ms
       /\ ref'.bossIntroActive /\ now' - ref'.bossIntroStartTime < 3000 =>
             ref'.bossMessageIndex = 0 /\ ref'.bossCharIndex = 0
       \* typewriter: the messages in list order, one character per tick at most
       /\ BossTypes(ref) =>
             \/ /\ ref'.bossMessageIndex = ref.bossMessageIndex
                /\ ref'.bossCharIndex \in {ref.bossCharIndex, ref.bossCharIndex + 1}
                /\ ref'.bossCharIndex <= BossLen(ref)
                /\ ref'.bossCharIndex # ref.bossCharIndex => ref'.bossLastCharTime = now'
                /\ ref'.bossIntroActive
             \/ /\ ref'.bossMessageIndex = ref.bossMessageIndex + 1
                /\ ref'.bossCharIndex = 0
                /\ ref.bossCharIndex = BossLen(ref)
                /\ now' - ref.bossLastCharTime > 1200
                /\ ref'.bossIntroActive
       \* done: the intro goes off after the last message only, and stays off
       /\ ref.bossIntroActive /\ ~ref'.bossIntroActive =>
             ref.bossMessageIndex = Len(BOSS_MESSAGES)
       /\ ref.bossIntroActive /\ ref.bossMessageIndex = Len(BOSS_MESSAGES) =>
             /\ ref'.bossMessageIndex = ref.bossMessageIndex
             /\ ~ref'.bossIntroActive <=> now' - ref.bossLastCharTime >= 1500
       /\ ref.bossIntroTriggered /\ ~ref.bossIntroActive => ~ref'.bossIntroActive

\* C20: once triggered the boss intro goes glitch -> typewriter -> done: no
\* character or message index advances while less than 3000 ms have passed
\* since the trigger; the messages come in list order, the revealed
\* character count grows by at most one per tick, and the next message
\* starts only when the current one is fully revealed and 1200 ms have
\* passed since its last character; after the last message the intro goes
\* off and stays off for the session.  With PLAYING ticks continuing and
\* time advancing an active intro eventually goes off.
C20_BossIntroSequence ==
    /\ [][BossIntroStep]_vars
    /\ ref.bossIntroActive ~> ~ref.bossIntroActive

\* C20 witness: the intro was triggered in this run, has shown its four
\* messages and is off.
C20_Witness ==
    /\ obs.branch = "PLAYING" /\ hist.bossStarts = 1 /\ hist.base = 149
    /\ ref.bossIntroTriggered /\ ~ref.bossIntroActive
    /\ ref.bossMessageIndex = Len(BOSS_MESSAGES)

\* C20 witness: after a pause of seconds one tick reveals one character.
C20_ResumeWitness ==
    /\ obs.branch = "PLAYING" /\ ref.bossIntroActive /\ ref.bossMessageIndex = 0
    /\ ref.bossCharIndex = 4 /\ ref.bossLastCharTime = now
    /\ now - ref.bossIntroStartTime > 8000

\* ---------------------------------------------------------------------- C21
Modifiers == {"power", "debuff", "mega"}
ModOn(r, m) ==
    CASE m = "power" -> r.powerUpActive
      [] m = "debuff" -> r.bluePillActive
      [] m = "mega" -> r.posterActive
ModEnd(r, m) ==
    CASE m = "power" -> r.powerUpEndTime
      [] m = "debuff" -> r.bluePillEndTime
      [] m = "mega" -> r.posterEndTime
\* The duration of the modifier that the pickups collected in a tick switch
\* on (0: none); the mega power-up switches the power shot on for its own
\* duration.
ModPicked(o, m) ==
    CASE m = "power" -> IF o.pick["poster"].applied THEN POSTER_DURATION
                        ELSE IF o.pick["green"].applied THEN POWER_DURATION ELSE 0
      [] m = "debuff" -> IF o.pick["blue"].applied THEN BLUE_PILL_DURATION ELSE 0
      [] m = "mega" -> IF o.pick["poster"].applied THEN POSTER_DURATION ELSE 0

ModifierStep ==
    PlayingStep =>
      \A m \in Modifiers :
         IF ModPicked(obs', m) > 0
         THEN ModOn(ref', m) /\ ModEnd(ref', m) = now' + ModPicked(obs', m)
         ELSE /\ ModEnd(ref', m) = ModEnd(ref, m)
              /\ ModOn(ref', m) <=> (ModOn(ref, m) /\ now' <= ModEnd(ref, m))

\* C21: a pickup records its modifier's deadline as the time of the tick +
\* the duration (power shot 5000 ms, debuff 5000 ms, mega 6500 ms); without a
\* pickup a PLAYING tick leaves the deadline alone and the modifier is on after
\* the tick exactly when it was on before and the time of the tick does not
\* exceed the deadline, however long the tick took to come; while PLAYING
\* ticks keep coming every modifier that is on goes off.
C21_ModifierDeadlines ==
    /\ [][ModifierStep]_vars
    /\ \A m \in Modifiers :
         (gameState = "PLAYING" /\ ModOn(ref, m))
            ~> (gameState # "PLAYING" \/ ~ModOn(ref, m))

\* C21 witnesses: a modifier that went off in a tick that came after hundreds
\* of frames, each of the three, and one that went off in the first tick after
\* a gap of seconds.
C21_Witness ==
    /\ obs.branch = "PLAYING" /\ gameState = "PLAYING" /\ hist.stalls = 0
    /\ ~ref.powerUpActive /\ ref.powerUpEndTime > 0 /\ now > ref.powerUpEndTime
    /\ now - ref.powerUpEndTime <= FRAME_MS
    /\ ~ref.posterActive /\ ref.posterEndTime = 0
C21_DebuffWitness ==
    /\ obs.branch = "PLAYING" /\ gameState = "PLAYING" /\ hist.stalls = 0
    /\ ~ref.bluePillActive /\ ref.bluePillEndTime > 0
    /\ now > ref.bluePillEndTime /\ now - ref.bluePillEndTime <= FRAME_MS
C21_MegaWitness ==
    /\ obs.branch = "PLAYING" /\ gameState = "PLAYING" /\ hist.stalls = 0
    /\ ~ref.posterActive /\ ref.posterEndTime > 0
    /\ now > ref.posterEndTime /\ now - ref.posterEndTime <= FRAME_MS
C21_LateWitness ==
    /\ obs.branch = "PLAYING" /\ gameState = "PLAYING" /\ hist.stalls = 1
    /\ ~ref.bluePillActive /\ ref.bluePillEndTime > 0
    /\ now - ref.bluePillEndTime > FRAME_MS /\ now - ref.bluePillEndTime < HITCH_MS

\* ---------------------------------------------------------------------- C22
\* A frame in which render() threw.
FaultStep == now' # now /\ obs'.error

\* C22: a call of render() that throws is caught (the error indicator is
\* drawn), leaves exactly one callback requested, the one it requested itself,
\* and leaves the phase as it was unless a step that ran before the throw
\* ended the run; this holds for every faulty frame in a row.
C22_FaultKeepsLoop ==
    [][ FaultStep =>
          /\ raf'.held /\ raf'.others = 0
          /\ \/ gameState' = gameState
             \/ gameState = "PLAYING" /\ gameState' = "GAME_OVER" /\ obs'.ended # {} ]_vars

\* C22 witnesses: the third faulty frame in a row of a running session, and a
\* faulty frame whose steps ended the run.
C22_Witness ==
    obs.error /\ obs.faults >= 3 /\ gameState = "PLAYING" /\ raf.held /\ raf.others = 0
C22_EndWitness == obs.error /\ obs.ended # {} /\ gameState = "GAME_OVER"

\* ---------------------------------------------------------------------- C23
\* A step in which the render effect was torn down and set up again: neither
\* a frame nor an input.
RerunStep == dirty /\ now' = now /\ inputs' = inputs /\ menuKeys' = menuKeys

\* C23: at most one frame callback is requested at any time, and it is the
\* one animationFrameId holds; when the render effect is set up again (after
\* a change of phase, score, canvas size, menu screen or graphics quality)
\* the callback requested last is no longer on the host's list and the only
\* one on it is the one the new loop requested.
C23_OneCallbackPending ==
    /\ [](raf.others = 0)
    /\ [][ RerunStep => raf'.held /\ raf'.others = 0 ]_vars

\* C23 witnesses: the effect set up again in a running session whose score
\* changed, after a change of menu screen, of phase and of graphics quality.
C23_Witness ==
    gameState = "PLAYING" /\ score > hist.base /\ ~dirty /\ raf.held /\ raf.others = 0
C23_MenuWitness == menuScreen = "OPTIONS" /\ ~dirty /\ raf.held /\ raf.others = 0
C23_PhaseWitness == gameState = "PAUSED" /\ ~dirty /\ raf.held /\ raf.others = 0
C23_QualityWitness == graphicsQuality # "HIGH" /\ ~dirty /\ raf.held /\ raf.others = 0

\* ---------------------------------------------------------------------- C24
\* startGame() was called in this step.
SessionStart == hist'.session = hist.session + 1
\* The tracker detects the level boundary in this tick.
BoundaryTick == PlayingStep /\ obs'.bossStarted
LevelStep ==
    /\ SessionStart => ref'.songLevel = 1
    /\ ~SessionStart =>
         /\ ref'.songLevel \in {ref.songLevel, ref.songLevel + 1}
         /\ ref'.songLevel <= 3
         /\ ref'.songLevel # ref.songLevel => obs' = obs \/ BoundaryTick

\* C24: the level index is 1 at session start, moves only from 1 to 2 to 3
\* within a session, and moves on a track-ended signal and not in a frame,
\* except in the tick that detects the level boundary (score 150), which
\* moves it without a track-ended signal.
C24_LevelAdvance ==
    [][ /\ LevelStep
        /\ BoundaryTick => ref'.songLevel = Min2(ref.songLevel + 1, 3) ]_vars

\* ---------------------------------------------------------------------- C25
\* The projectiles a tick updated that neither hit a segment of an obstacle
\* nor moved past the right edge, as they are after the update.
ShotHit(s) == s.pipesAfter # s.pipes
ShotGone(s) == s.proj.x > CanvasW + PROJ_MARGIN
Survivors(shots) ==
    LET kept == SelectSeq(shots, LAMBDA s : ~ShotHit(s) /\ ~ShotGone(s))
    IN [k \in 1..Len(kept) |-> kept[k].proj]

\* C25: after a PLAYING tick the projectile collection holds exactly the
\* projectiles the tick updated that neither hit a top or bottom segment of a
\* non-destroyed obstacle nor moved past the right edge, each one once.
C25_ProjectileRemoval ==
    [][ PlayingStep =>
          \A v \in Range(Survivors(obs'.shots)) \cup Range(ref'.projectiles) :
             CountOf(Survivors(obs'.shots), v) = CountOf(ref'.projectiles, v) ]_vars


\* ---------------------------------------------------------------- C26
SpawnTimer(r, k) ==
    CASE k = "green" -> r.pillSpawnTimer [] k = "blue" -> r.bluePillSpawnTimer
      [] OTHER -> r.posterSpawnTimer
SpawnGate(k) ==
    CASE k = "green" -> PILL_SPAWN_GATE [] k = "blue" -> BLUE_PILL_SPAWN_GATE
      [] OTHER -> POSTER_SPAWN_INTERVAL
SpawnEnabled(r, k) ==
    CASE k = "green" -> r.greenPillsEnabled [] k = "blue" -> r.bluePillsEnabled
      [] OTHER -> TRUE
LiveOf(r, k) == CASE k = "green" -> r.pill [] k = "blue" -> r.bluePill [] OTHER -> r.poster
SpawnedNow(k) == hist'.spawned[k] = hist.spawned[k] + 1
\* The gate counts the PLAYING ticks since the last spawn or the session
\* start, the current tick included.
GateExceeded(k) == SpawnTimer(ref, k) + 1 > SpawnGate(k)
SpawnStep ==
    \A k \in PickupKinds :
       /\ hist'.spawned[k] \in {hist.spawned[k], hist.spawned[k] + 1}
       /\ SpawnedNow(k) =>
             /\ PlayingStep
             /\ LiveOf(ref, k) = NULL /\ LiveOf(ref', k) # NULL
             /\ GateExceeded(k)
             /\ Len(ref.pipes) > 0
             /\ SpawnEnabled(ref, k)
             /\ SpawnTimer(ref', k) = 0
       /\ (LiveOf(ref, k) = NULL /\ LiveOf(ref', k) # NULL) => SpawnedNow(k)
       /\ (PlayingStep /\ ~SpawnedNow(k)) => SpawnTimer(ref', k) = SpawnTimer(ref, k) + 1
       /\ (PlayingStep /\ Len(ref.pipes) = 0) => ~obs'.error /\ ~SpawnedNow(k)

\* C26: a pickup of a type spawns only in a PLAYING tick, only if none of
\* that type is live, its gate of 500 / 800 / 3600 ticks since its last spawn
\* or the session start has been exceeded, an obstacle exists and its enable
\* toggle is on; a pickup becomes live only by such a spawn, so at most one
\* of each type is live; a tick with no obstacle spawns nothing and raises
\* no error.
C26_PickupSpawn == [][SpawnStep]_vars
C26_Witness == hist.spawned["green"] = 1 /\ ref.pill # NULL /\ ref.pillSpawnTimer = 0
C26_BlueWitness == hist.spawned["blue"] = 1 /\ ref.bluePill # NULL /\ ref.bluePillSpawnTimer = 0
C26_PosterWitness ==
    hist.spawned["poster"] = 1 /\ ref.poster # NULL /\ ref.posterSpawnTimer = 0
C26_OffWitness ==
    /\ gameState = "PLAYING" /\ ~ref.greenPillsEnabled /\ ref.pill = NULL
    /\ ref.pillSpawnTimer > PILL_SPAWN_GATE + 201 /\ hist.spawned["green"] = 0
C26_NoObstacleWitness ==
    gameState = "PLAYING" /\ ref.pipes = <<>> /\ ref.frameCount > 0 /\ obs.branch = "PLAYING"


\* ---------------------------------------------------------------- C27
\* The five scores before a multiple of 60, with the sandstorm toggle on and
\* no sandstorm active.
BeforeStorm(o) ==
    /\ o.stormEnabled /\ ~o.sand0
    /\ \E k \in 1..3 : /\ o.score >= k * SANDSTORM_TRIGGER_SCORE - 5
                       /\ o.score < k * SANDSTORM_TRIGGER_SCORE

\* C27: in a PLAYING tick with the score in [k*60 - 5, k*60) for a positive
\* k and no sandstorm active, the warning is raised and rain is suppressed,
\* so that every sandstorm start is preceded by a warning window.
C27_WarningBeforeStorm ==
    (obs.branch = "PLAYING" /\ BeforeStorm(obs)) => (obs.warning /\ ~obs.rain)


\* ---------------------------------------------------------------- C28
\* A jump input: Space / ArrowUp, a click or a tap while PLAYING (a click on
\* the dev panel included, which reaches jump() as well).
JumpInput ==
    /\ gameState = "PLAYING" /\ gameState' = "PLAYING"
    /\ now' = now /\ inputs' = inputs + 1 /\ ~dirty /\ ~dirty'
    /\ ref'.birdVelocity = LIFT
Created == Len(ref'.projectiles) - Len(ref.projectiles)
IsPrefix(s, t) == Len(s) <= Len(t) /\ SubSeq(t, 1, Len(s)) = s
\* The auto-fire is due in the tick that ends in ref': the mega power-up is
\* on after its expiry test, the tick is the 5th of its count, and fewer than
\* 50 projectiles were live.
AutoFireDue ==
    /\ ref'.posterActive
    /\ ref'.posterAutoFireTimer % AUTO_FIRE_EVERY = 0
    /\ Len(ref.projectiles) < AUTO_FIRE_CAP
ProjectileStep ==
    /\ JumpInput =>
          /\ IsPrefix(ref.projectiles, ref'.projectiles)
          /\ Created = (IF ref.posterActive THEN 5 ELSE IF ref.powerUpActive THEN 1 ELSE 0)
    /\ PlayingStep =>
          /\ obs'.volley = (IF AutoFireDue THEN 5 ELSE 0)
          /\ Created <= obs'.volley
          /\ ref'.posterActive =>
                ref'.posterAutoFireTimer = ref.posterAutoFireTimer + 1
    /\ (~JumpInput /\ ~PlayingStep) => Created <= 0

\* C28: projectiles are created only by a jump input during PLAYING while
\* the power-shot or the mega power-up is active (one, or five when mega is
\* active), and by the mega auto-fire, which adds five on every 5th PLAYING
\* tick while mega is active and fewer than 50 projectiles are live, without
\* a jump input; a jump with no shooting modifier active creates none.
C28_ProjectileSources == [][ProjectileStep]_vars
C28_Witness ==
    /\ obs.branch = "PLAYING" /\ obs.volley = 5 /\ inputs = 0
    /\ ref.posterActive /\ ref.projectiles # <<>>
C28_JumpWitness ==
    /\ gameState = "PLAYING" /\ ref.powerUpActive /\ ~ref.posterActive /\ inputs = 1
    /\ Len(ref.projectiles) = 1 /\ ref.birdVelocity = LIFT
C28_SpreadWitness ==
    /\ gameState = "PLAYING" /\ ref.posterActive /\ inputs = 1 /\ ticks = 0
    /\ Len(ref.projectiles) = 5 /\ ref.birdVelocity = LIFT
C28_NoShotWitness ==
    /\ gameState = "PLAYING" /\ ~ref.powerUpActive /\ ~ref.posterActive /\ inputs = 1
    /\ ref.projectiles = <<>> /\ ref.birdVelocity = LIFT
C28_CapWitness ==
    /\ obs.branch = "PLAYING" /\ obs.volley = 0 /\ ref.posterActive
    /\ ref.posterAutoFireTimer % AUTO_FIRE_EVERY = 0 /\ Len(ref.projectiles) >= AUTO_FIRE_CAP - 5
    /\ ticks = 1 /\ inputs = 0


\* ---------------------------------------------------------------- C29
\* A call of render(): a frame callback, or the call that a re-run of the
\* render effect makes.
RenderCall == ticks' = ticks + 1 \/ RerunStep
PlayingTick == RenderCall /\ gameState = "PLAYING"
PipesSpawned == hist'.nextId - hist.nextId
PipeSpawnStep ==
    /\ PlayingTick =>
          /\ ref'.frameCount = ref.frameCount + 1
          /\ PipesSpawned = (IF ref'.frameCount % PIPE_SPAWN_RATE = 0 THEN 1 ELSE 0)
          /\ PipesSpawned = 1 =>
                \E i \in DOMAIN ref'.pipes :
                   /\ ref'.pipes[i].id = hist.nextId
                   /\ ref'.pipes[i].x = CanvasW - eff'.scaledPipeSpeed
          /\ Cardinality({ i \in DOMAIN ref'.pipes :
                             \A j \in DOMAIN ref.pipes : ref.pipes[j].id # ref'.pipes[i].id })
               = PipesSpawned
    /\ ~PlayingTick =>
          /\ PipesSpawned = 0
          /\ ref'.frameCount = (IF obs'.branch = "startGame" /\ obs # obs' THEN 0
                                ELSE ref.frameCount)
          /\ \A i \in DOMAIN ref'.pipes : \E j \in DOMAIN ref.pipes : ref.pipes[j] = ref'.pipes[i]

\* C29: in each PLAYING tick the frame counter of the session goes up by one
\* and exactly one obstacle is spawned if the counter is then a positive
\* multiple of 150, none otherwise, whatever the score, the modifiers and the
\* hazards are; outside PLAYING ticks the counter stands still and no
\* obstacle is spawned, and a reset puts the counter back to 0.
C29_PipeSpawn == [][PipeSpawnStep]_vars
C29_Witness ==
    /\ obs.branch = "PLAYING" /\ ref.frameCount > 0 /\ ref.frameCount % PIPE_SPAWN_RATE = 0
    /\ Len(ref.pipes) = 2 /\ ref.pipes[2].id = 2 /\ hist.nextId = 3
C29_BossWitness ==
    /\ obs.branch = "PLAYING" /\ ref.frameCount % PIPE_SPAWN_RATE = 0 /\ hist.nextId = 3
    /\ score >= LEVEL_2_SCORE /\ ref.bossIntroTriggered
C29_MegaWitness ==
    /\ obs.branch = "PLAYING" /\ ref.frameCount % PIPE_SPAWN_RATE = 0 /\ hist.nextId = 3
    /\ ref.posterActive
C29_StormWitness ==
    /\ obs.branch = "PLAYING" /\ ref.frameCount % PIPE_SPAWN_RATE = 0 /\ hist.nextId = 3
    /\ ref.sandstormActiveRef
C29_PausedWitness ==
    /\ obs.branch = "PAUSED" /\ gameState = "PAUSED" /\ ticks > 1 /\ ref.frameCount > 0
C29_ResetWitness ==
    /\ gameState = "PLAYING" /\ hist.session = 2 /\ ref.frameCount = 1 /\ ref.pipes = <<>>


\* ---------------------------------------------------------------- C30
PowerCells(r) == <<r.powerUpActive, r.powerUpEndTime>>
DebuffCells(r) == <<r.bluePillActive, r.bluePillEndTime>>
\* What else moves a modifier in the tick that ends at now': a pickup of its
\* own, or its own deadline.
PowerMoved ==
    \/ obs'.pick["green"].applied \/ obs'.pick["poster"].applied
    \/ ref.powerUpActive /\ now' > ref.powerUpEndTime
DebuffMoved ==
    \/ obs'.pick["blue"].applied
    \/ ref.bluePillActive /\ now' > ref.bluePillEndTime
PillStep ==
    PlayingTick =>
       /\ (obs'.pick["blue"].applied /\ ~PowerMoved) => PowerCells(ref') = PowerCells(ref)
       /\ (obs'.pick["green"].applied /\ ~DebuffMoved) => DebuffCells(ref') = DebuffCells(ref)
       /\ (ref.powerUpActive /\ ~ref'.powerUpActive /\ ~obs'.pick["blue"].applied)
             => /\ ref'.bluePillEndTime = ref.bluePillEndTime
                /\ ref'.bluePillActive
                     <=> (ref.bluePillActive /\ now' <= ref.bluePillEndTime)
       /\ (ref.bluePillActive /\ ~ref'.bluePillActive /\ ~obs'.pick["green"].applied
             /\ ~obs'.pick["poster"].applied)
             => /\ ref'.powerUpEndTime = ref.powerUpEndTime
                /\ ref'.powerUpActive
                     <=> (ref.powerUpActive /\ now' <= ref.powerUpEndTime)

\* C30: a tick in which a debuff pill is collected leaves the power-shot flag
\* and its deadline as they were, and a tick in which a power pill is
\* collected leaves the debuff flag and its deadline as they were (unless the
\* other modifier is collected or falls due in that same tick); a tick in
\* which one of the two expires moves the other only by the other's own
\* deadline.
C30_PillsIndependent == [][PillStep]_vars
C30_Witness ==
    /\ obs.branch = "PLAYING" /\ obs.pick["blue"].applied
    /\ ref.bluePillActive /\ ref.powerUpActive /\ ref.powerUpEndTime > now
    /\ ref.bluePillEndTime = now + BLUE_PILL_DURATION
C30_PowerWitness ==
    /\ obs.branch = "PLAYING" /\ obs.pick["green"].applied
    /\ ref.powerUpActive /\ ref.bluePillActive /\ ref.bluePillEndTime > now
    /\ ref.powerUpEndTime = now + POWER_DURATION
C30_PowerExpiryWitness ==
    /\ obs.branch = "PLAYING" /\ ~ref.powerUpActive /\ ref.powerUpEndTime > 0
    /\ now > ref.powerUpEndTime /\ ref.bluePillActive /\ ref.bluePillEndTime > now
C30_DebuffExpiryWitness ==
    /\ obs.branch = "PLAYING" /\ ~ref.bluePillActive /\ ref.bluePillEndTime > 0
    /\ now > ref.bluePillEndTime /\ ref.powerUpActive /\ ref.powerUpEndTime > now


\* ---------------------------------------------------------------- C31
\* The avatar test of the raindrop loop, on a drop that has moved.
RainHit(d, y, e) ==
    /\ d.x > scaledBirdX /\ d.x < scaledBirdX + e.scaledBirdSize
    /\ d.y + d.length > y /\ d.y < y + e.scaledBirdSize
Fallen(d) == [d EXCEPT !.y = @ + d.speed, !.x = @ + d.vx]
\* The drops of a tick after their move: those there before it and the one
\* spawned in it.
DropsMoved ==
    [i \in 1..(Len(ref.rainDrops) + obs'.drops) |->
        Fallen(IF i <= Len(ref.rainDrops) THEN ref.rainDrops[i] ELSE NewRainDrop)]
DropsHit == { i \in DOMAIN DropsMoved : RainHit(DropsMoved[i], ref'.birdY, eff') }
DropsLeft ==
    { i \in DOMAIN DropsMoved :
        i \notin DropsHit /\ ~(DropsMoved[i].y > CanvasH \/ DropsMoved[i].x < 0 - 5000) }
\* The cells that rain owns, blanked.
NoRain(r) == Merge(r, [acidRainEnabled |-> FALSE, rainDrops |-> <<>>, splashParticles |-> <<>>])
\* The tick does to everything else what it does with no rain at all.
AsWithoutRain ==
    \E f \in Render(gameState, score, NoRain(ref), hist, stored, highScores, eff', now') :
       /\ NoRain(f.ref) = NoRain(ref')
       /\ score' = score + f.incs
       /\ gameState' = (IF f.over THEN "GAME_OVER" ELSE gameState)
       /\ eff' = (IF dirty THEN EffectSetup(ref) ELSE eff)
NoDropOnAvatar ==
    \A i \in DOMAIN ref'.rainDrops : ~RainHit(ref'.rainDrops[i], ref'.birdY, eff')
SplashStep ==
    /\ { ref'.rainDrops[i] : i \in DOMAIN ref'.rainDrops } = { DropsMoved[i] : i \in DropsLeft }
    /\ Len(ref'.rainDrops) = Cardinality(DropsLeft)
    /\ Cardinality({ i \in DOMAIN ref'.splashParticles : ref'.splashParticles[i] = 29 })
         = 8 * Cardinality(DropsHit)

\* C31 as stated: after every PLAYING tick no raindrop is left on the avatar
\* (a drop that overlaps it is removed in that tick, with a splash), and the
\* tick leaves score, phase, avatar, modifiers and world speed as a tick
\* without rain does.
C31_RainContact == [][PlayingTick => (NoDropOnAvatar /\ AsWithoutRain)]_vars

\* C31 amended: in a PLAYING tick in which rain is active, the drops that
\* overlap the avatar after their move are removed in that tick, eight
\* splash particles are spawned for each and the other drops on screen stay;
\* every PLAYING tick, with rain active or not, leaves score, phase, avatar,
\* modifiers and world speed as a tick without rain does.
C31_RainContactWhileActive ==
    [][PlayingTick => ((obs'.rain => SplashStep /\ NoDropOnAvatar) /\ AsWithoutRain)]_vars
C31_Witness ==
    /\ obs.branch = "PLAYING" /\ obs.rain /\ ref.rainDrops = <<>> /\ obs.drops = 0
    /\ Len(ref.splashParticles) = 8 /\ ref.splashParticles[1] = 29
C31_DrainWitness ==
    /\ obs.branch = "PLAYING" /\ ~obs.rain /\ obs.warning /\ ref.rainDrops # <<>>
    /\ RainHit(ref.rainDrops[1], ref.birdY, eff) /\ ref.splashParticles = <<>>


\* ---------------------------------------------------------------- C32
\* C32: whenever a pickup spawns, the obstacle whose gap centre anchors it
\* is the obstacle spawned last (which is still live), after any sequence of
\* obstacle spawns and left-edge removals.
C32_AnchorNewest ==
    (obs.branch = "obstacles" /\ obs.anchor # 0) => obs.anchor = obs.newest


\* ---------------------------------------------------------------- C33
\* The obstacles that the step takes out of the array.
RemovedNow == { k \in DOMAIN ref.pipes : \A j \in DOMAIN ref'.pipes :
                                            ref'.pipes[j].id # ref.pipes[k].id }
EdgeStep ==
    /\ hist'.session = hist.session =>
          /\ \A k \in RemovedNow :
                /\ ref.pipes[k].passed
                /\ ref.pipes[k].x - eff'.scaledPipeSpeed < PIPE_REMOVE_X
          /\ hist'.gone = hist.gone + Cardinality(RemovedNow)
          /\ RemovedNow # {} => PlayingTick
    /\ score' <= score + 1
    /\ score' > score => PlayingTick

\* C33: an obstacle removed at the left edge has its passed flag set
\* already, so at every frame boundary the score of the session is the
\* number of obstacles whose passed flag has been set in it, is at least the
\* number of obstacles removed, and grows by at most 1 per tick.
C33_PassedBeforeRemoved ==
    /\ [](/\ score = hist.base + Cardinality(Range(hist.scoredIds))
          /\ Len(hist.scoredIds) = Cardinality(Range(hist.scoredIds))
          /\ score >= hist.gone)
    /\ [][EdgeStep]_vars
C33_Witness ==
    /\ obs.branch = "PLAYING" /\ hist.gone = score /\ hist.scoredIds = <<>>
    /\ Len(ref.pipes) = 1 /\ ~ref.pipes[1].passed /\ ref.pipes[1].id = 1
    /\ ref.pipes[1].x < PIPE_REMOVE_X + PIPE_SPEED * PIPE_SPAWN_RATE
C33_ScoredWitness ==
    /\ obs.branch = "PLAYING" /\ score = hist.base + 1 /\ hist.gone = hist.base
    /\ Len(ref.pipes) = 1 /\ ref.pipes[1].passed


\* ---------------------------------------------------------------- C34
\* C34: no PLAYING tick starts both a taunt and the boss intro; the score
\* that triggers the boss intro (150) produces no taunt.
C34_TauntOrBoss ==
    obs.branch = "PLAYING" => ~(obs.tauntStarted /\ obs.bossStarted)

\* ---------------------------------------------------------------- C35
\* C35: in the START phase the selected menu index is always an index of the
\* item list shown (main menu 2 items, GRAPHICS tab 11, AUDIO tab 3).
C35_SelectedInRange ==
    gameState = "START" =>
        ItemAt(ItemsOf(menuScreen, activeTab), ref.selectedMenuItem) # "undefined"

\* ---------------------------------------------------------------- C36
\* C36: on the options screen each press of the tab key shows the other tab
\* (two presses in a row return to the first one), and a select acts on the
\* item list of the tab shown.
TabKeyStep ==
    MenuTab /\ menuScreen = "OPTIONS" => activeTab' # activeTab

SelectKeyStep ==
    MenuEnter /\ menuScreen = "OPTIONS" => handleMenuSelect(ref, activeTab)

C36_TabCycles == [][TabKeyStep /\ SelectKeyStep]_vars

\* The tab-key half alone.
C36_TabKeyCycles == [][TabKeyStep]_vars

\* The select half alone.
C36_SelectOnShownTab == [][SelectKeyStep]_vars

\* ---------------------------------------------------------------- C37
\* C37: while the main menu is shown no key press changes the graphics preset
\* or the settings saved with it.
MenuKey == MenuTab \/ MenuArrow \/ MenuQuality \/ MenuEnter \/ MenuEscape

SettingsOf(r, q) ==
    [quality |-> q, showBirdGlow |-> r.showBirdGlow,
     particleMultiplier |-> r.particleMultiplier]

C37_MainMenuKeepsSettings ==
    [][(MenuKey /\ menuScreen = "MAIN")
         => SettingsOf(ref', graphicsQuality') = SettingsOf(ref, graphicsQuality)]_vars
====
